---- MODULE Spec2Model ----
(***************************************************************************)
(* CTAD protocol: the declaration ledger (src/src/lib/actions.ts) and the  *)
(* contribution reward engine (src/src/lib/process-utils.ts).              *)
(*                                                                         *)
(* Text values are sequences of one-character strings, so that trim() is   *)
(* computed and not assumed.  The database tables are sequences in         *)
(* insertion order; a row's position is its identifier.                    *)
(***************************************************************************)
EXTENDS Integers, Sequences, FiniteSets, TLC

VARIABLES
    works,          \* table Work
    declarations,   \* table Declaration
    audioRefs,      \* table AudioReference
    revisions,      \* table DeclarationRevision
    now,            \* the database clock, in milliseconds
    uploaded,       \* history: the audioFiles of the createWork call of each Work
    contributorRows, \* table Contributor
    inFlight,       \* the reward computations under way, one per request
    completedTags,  \* history: <<anonymousId, tag>> of the completed contributions
    tasteUpdates,   \* history: the updateTasteScore calls that stored a score
    rewardsReported, \* history: per anonymous id, the rewards returned and their points
    processDeclarations, \* table ProcessDeclaration
    result          \* the last operation: its input and what it returned

vars == <<works, declarations, audioRefs, revisions, now, uploaded, contributorRows,
          inFlight, completedTags, tasteUpdates, rewardsReported, processDeclarations,
          result>>

\* What the ledger operations leave alone, and what the reward engine leaves alone.
rewardVars == <<contributorRows, inFlight, completedTags, tasteUpdates, rewardsReported,
                processDeclarations>>

ledgerVars == <<works, declarations, audioRefs, revisions, now, uploaded>>

---------------------------------------------------------------------------
(* Bounds *)

MaxWorks == 2

MaxRevisions == 2

MaxClock == 1

\* The largest total of points given to calculateTier on its own.
MaxTotalPoints == 2100

\* Reward computations stored in the table, and taste-score updates stored.
MaxContributions == 3

MaxTasteUpdates == 1

\* Reward computations started where their steps interleave.
MaxRaceContributions == 2

\* The longest prompt lineage and list of rejections scored on their own.
MaxEntries == 11

\* Reward computations of the two contributors that are given the same calls.
MaxTwinContributions == 4

\* Contributors created, and taste-score updates made one after another, where
\* the taste score is followed.
MaxTasteContributions == 3

MaxTasteChain == 2

\* ProcessDeclarations stored by the submissions.
MaxSubmissions == 2

\* The anonymous ids of the contributors.
AnonymousIds == { "anon-1", "anon-2" }

\* The requests that compute a reward at the same time.
Requests == { 1, 2 }

\* A request that computes no reward.
Idle == [stage |-> "idle"]

---------------------------------------------------------------------------
(* Values *)

\* null of a text value: no text equals it (a text holds single characters).
NULL == <<"null">>

\* A nullable Boolean column: null, or the Boolean.
NullBool == <<>>

Bool(b) == <<b>>

\* 'true' and the other values the aiUsed form field takes.
TrueText == <<"t", "r", "u", "e">>

FalseText == <<"f", "a", "l", "s", "e">>

\* Identifiers (cuid in the database): a distinct text per row of a table.
WorkId(n) == <<"w", ToString(n)>>

DeclId(n) == <<"d", ToString(n)>>

RevisionId(n) == <<"r", ToString(n)>>

AudioRefId(n) == <<"f", ToString(n)>>

\* No error message: the operation went on.
NoError == ""

\* findUnique found no row.
NoRow == [id |-> NULL]

SP == " "

\* String.prototype.trim(): drops the white space at both ends, keeps it inside.
RECURSIVE TrimLeft(_)
TrimLeft(s) ==
    IF s = <<>> THEN <<>>
    ELSE IF Head(s) = SP THEN TrimLeft(Tail(s)) ELSE s

RECURSIVE TrimRight(_)
TrimRight(s) ==
    IF s = <<>> THEN <<>>
    ELSE IF s[Len(s)] = SP THEN TrimRight(SubSeq(s, 1, Len(s) - 1)) ELSE s

trim(s) == TrimRight(TrimLeft(s))

\* !x?.trim() : a missing value, or a text that is empty once trimmed.
Blank(x) == x = NULL \/ trim(x) = <<>>

\* Mutant: x?.trim() ?? null, which keeps the empty text.
TrimOrNullKeepEmpty(x) == IF x = NULL THEN NULL ELSE trim(x)

\* x?.trim() || null
TrimOrNull(x) == IF x = NULL \/ trim(x) = <<>> THEN NULL ELSE trim(x)

\* createHash('sha256').update(buffer).digest('hex'): a function of the bytes alone.
computeSha256(bytes) == <<"sha256", bytes>>

---------------------------------------------------------------------------
(* Inputs *)

Texts == { <<>>, <<SP>>, <<SP, "a", SP>>, <<"b", SP>>, <<"a", SP, "b">> }

TextInputs == Texts \cup {NULL}

\* The texts tried on the fields that are varied less.
FewTextInputs == { NULL, <<>>, <<SP>>, <<"b", SP>> }

\* File objects of the form: a name and the bytes; size is the number of bytes.
EmptyFile == [name |-> "x.wav", bytes |-> <<>>]

FileY == [name |-> "y.wav", bytes |-> <<1>>]

FileZ == [name |-> "z.wav", bytes |-> <<1, 2>>]

FileLists == { <<>>, <<EmptyFile>>, <<FileY>>, <<EmptyFile, FileZ>>,
               <<FileY, EmptyFile, FileZ>> }

AiUsedInputs == { NULL, TrueText, FalseText, <<>>, <<"o", "n">> }

BaseWork == [ title |-> <<SP, "a", SP>>, intent |-> <<"a">>, tools |-> <<"a", SP>>,
              aiUsed |-> NULL, contributors |-> NULL, audioFiles |-> <<>> ]

OtherWork == [ title |-> <<"b", SP>>, intent |-> <<"a", SP, "b">>, tools |-> <<"b", SP>>,
               aiUsed |-> TrueText, contributors |-> <<SP, "a", SP>>,
               audioFiles |-> <<FileY>> ]

\* The form data of createWork: the base form with one field varied at a time,
\* and forms with several fields set or wrong.
WorkInputs ==
    { [BaseWork EXCEPT !.title = t] : t \in TextInputs }
    \cup { [BaseWork EXCEPT !.intent = t] : t \in TextInputs }
    \cup { [BaseWork EXCEPT !.tools = t] : t \in TextInputs }
    \cup { [BaseWork EXCEPT !.contributors = t] : t \in FewTextInputs }
    \cup { [BaseWork EXCEPT !.aiUsed = a] : a \in AiUsedInputs }
    \cup { [BaseWork EXCEPT !.audioFiles = fs] : fs \in FileLists }
    \cup { [OtherWork EXCEPT !.title = t] : t \in { <<SP>>, <<"b", SP>> } }
    \cup { [OtherWork EXCEPT !.intent = NULL, !.tools = <<>>] }

\* The few forms of createWork tried where the revisions are varied.
FewWorkInputs == { BaseWork, OtherWork, [OtherWork EXCEPT !.tools = <<SP>>] }

\* declarationId of the form: missing, the empty string, or an identifier
\* (the last one is of no Declaration).
DeclarationIds == { DeclId(n) : n \in 1 .. (MaxWorks + 1) }

DeclarationIdInputs == { NULL, <<>> } \cup DeclarationIds

BaseRevision == [ declarationId |-> DeclId(1), changeNote |-> <<SP, "a", SP>>,
                  intent |-> NULL, tools |-> NULL, aiUsed |-> NULL,
                  contributors |-> NULL ]

OtherRevision == [ declarationId |-> DeclId(1), changeNote |-> <<"b", SP>>,
                   intent |-> <<"b", SP>>, tools |-> <<SP, "a", SP>>,
                   aiUsed |-> FalseText, contributors |-> <<"a", SP, "b">> ]

\* The form data of createRevision: the base form with one field varied at a time,
\* and forms with several fields set or several fields wrong.
RevisionInputs ==
    { [BaseRevision EXCEPT !.declarationId = d] : d \in DeclarationIdInputs }
    \cup { [BaseRevision EXCEPT !.changeNote = t] : t \in FewTextInputs }
    \cup { [BaseRevision EXCEPT !.intent = t] : t \in TextInputs }
    \cup { [BaseRevision EXCEPT !.tools = t] : t \in FewTextInputs }
    \cup { [BaseRevision EXCEPT !.contributors = t] : t \in FewTextInputs }
    \cup { [BaseRevision EXCEPT !.aiUsed = a] : a \in AiUsedInputs }
    \cup { [BaseRevision EXCEPT !.declarationId = d, !.changeNote = t]
             : d \in { NULL, DeclId(MaxWorks + 1) }, t \in { NULL, <<SP>> } }
    \cup { [OtherRevision EXCEPT !.declarationId = d] : d \in DeclarationIds }

\* The few forms of createRevision tried where the works are varied.
FewRevisionInputs ==
    { BaseRevision, [OtherRevision EXCEPT !.declarationId = DeclId(2)],
      [BaseRevision EXCEPT !.changeNote = <<SP>>] }

---------------------------------------------------------------------------
(* Initial state: an empty database *)

Init ==
    /\ works = <<>>
    /\ declarations = <<>>
    /\ audioRefs = <<>>
    /\ revisions = <<>>
    /\ now = 0
    /\ uploaded = <<>>
    /\ contributorRows = <<>>
    /\ inFlight = [r \in Requests |-> Idle]
    /\ completedTags = {}
    /\ tasteUpdates = 0
    /\ rewardsReported = [id \in AnonymousIds |-> [rewards |-> 0, points |-> 0]]
    /\ processDeclarations = <<>>
    /\ result = [op |-> "none", input |-> NULL, error |-> NoError, value |-> NULL]

---------------------------------------------------------------------------
(* createWork *)

\* Mutant: the loop without the test of file.size.
audioRefDataAllFiles(files) ==
    [i \in 1 .. Len(files) |->
        [fileName |-> files[i].name, sha256 |-> computeSha256(files[i].bytes)]]

\* The loop over audioFiles: one {fileName, sha256} per file of nonzero size.
RECURSIVE audioRefData(_)
audioRefData(files) ==
    IF files = <<>> THEN <<>>
    ELSE IF Len(Head(files).bytes) > 0
         THEN <<[fileName |-> Head(files).name,
                 sha256 |-> computeSha256(Head(files).bytes)]>>
              \o audioRefData(Tail(files))
         ELSE audioRefData(Tail(files))

\* Mutant: the required fields tested without trim().
createWorkErrorNoTrim(in) ==
    IF in.title \in { NULL, <<>> } THEN "Work title is required"
    ELSE IF in.intent \in { NULL, <<>> } THEN "Intent statement is required"
    ELSE IF in.tools \in { NULL, <<>> } THEN "Tools used is required"
    ELSE NoError

createWorkError(in) ==
    IF Blank(in.title) THEN "Work title is required"
    ELSE IF Blank(in.intent) THEN "Intent statement is required"
    ELSE IF Blank(in.tools) THEN "Tools used is required"
    ELSE NoError

\* prisma.work.create with the nested creates: one transaction.
createWorkRows(in) ==
    LET workId == WorkId(Len(works) + 1)
        declId == DeclId(Len(declarations) + 1)
        refs == audioRefData(in.audioFiles)
    IN  /\ works' = Append(works,
               [id |-> workId, title |-> trim(in.title), createdAt |-> now])
        /\ declarations' = Append(declarations,
               [id |-> declId, workId |-> workId, createdAt |-> now,
                intent |-> trim(in.intent), tools |-> trim(in.tools),
                aiUsed |-> (in.aiUsed = TrueText),
                contributors |-> TrimOrNull(in.contributors)])
        /\ audioRefs' = audioRefs \o
               [i \in 1 .. Len(refs) |->
                   [id |-> AudioRefId(Len(audioRefs) + i), declarationId |-> declId,
                    createdAt |-> now, fileName |-> refs[i].fileName,
                    sha256 |-> refs[i].sha256, description |-> NULL]]
        /\ uploaded' = Append(uploaded, in.audioFiles)
        /\ result' = [op |-> "createWork", input |-> in, error |-> NoError,
                      value |-> workId]

createWork(in) ==
    IF createWorkError(in) # NoError
    THEN /\ result' = [op |-> "createWork", input |-> in,
                       error |-> createWorkError(in), value |-> NULL]
         /\ UNCHANGED <<works, declarations, audioRefs, revisions, now, uploaded, rewardVars>>
    ELSE /\ Len(works) < MaxWorks
         /\ createWorkRows(in)
         /\ UNCHANGED <<revisions, now, rewardVars>>


---------------------------------------------------------------------------
(* createRevision *)

\* prisma.declaration.findUnique({ where: { id } })
findDeclaration(id) ==
    IF \E i \in 1 .. Len(declarations) : declarations[i].id = id
    THEN declarations[CHOOSE i \in 1 .. Len(declarations) : declarations[i].id = id]
    ELSE NoRow

\* aiUsedValue === 'true' ? true : aiUsedValue === 'false' ? false : null
aiUsedOverride(v) ==
    IF v = TrueText THEN Bool(TRUE) ELSE IF v = FalseText THEN Bool(FALSE) ELSE NullBool

\* Mutant: the Declaration looked up before the form is validated.
createRevisionErrorLookupFirst(in) ==
    IF findDeclaration(in.declarationId) = NoRow THEN "Declaration not found"
    ELSE IF in.declarationId \in { NULL, <<>> } THEN "Declaration ID is required"
    ELSE IF Blank(in.changeNote) THEN "Change note is required"
    ELSE NoError

createRevisionError(in) ==
    IF in.declarationId \in { NULL, <<>> } THEN "Declaration ID is required"
    ELSE IF Blank(in.changeNote) THEN "Change note is required"
    ELSE IF findDeclaration(in.declarationId) = NoRow THEN "Declaration not found"
    ELSE NoError

\* Mutant: the overrides stored without trim().
revisionRowUntrimmed(in) ==
    [ id |-> RevisionId(Len(revisions) + 1),
      declarationId |-> in.declarationId,
      createdAt |-> now,
      changeNote |-> trim(in.changeNote),
      intent |-> IF in.intent \in { NULL, <<>> } THEN NULL ELSE in.intent,
      tools |-> IF in.tools \in { NULL, <<>> } THEN NULL ELSE in.tools,
      aiUsed |-> aiUsedOverride(in.aiUsed),
      contributors |->
          IF in.contributors \in { NULL, <<>> } THEN NULL ELSE in.contributors ]

\* prisma.declarationRevision.create
revisionRow(in) ==
    [ id |-> RevisionId(Len(revisions) + 1),
      declarationId |-> in.declarationId,
      createdAt |-> now,
      changeNote |-> trim(in.changeNote),
      intent |-> TrimOrNull(in.intent),
      tools |-> TrimOrNull(in.tools),
      aiUsed |-> aiUsedOverride(in.aiUsed),
      contributors |-> TrimOrNull(in.contributors) ]

\* Mutant: the revision also written into its Declaration.
createRevisionRowsAltering(in) ==
    /\ revisions' = Append(revisions, revisionRow(in))
    /\ declarations' =
          [i \in 1 .. Len(declarations) |->
              IF declarations[i].id = in.declarationId /\ revisionRow(in).intent # NULL
              THEN [declarations[i] EXCEPT !.intent = revisionRow(in).intent]
              ELSE declarations[i]]
    /\ UNCHANGED <<works, audioRefs>>

\* Mutant: the revision stored in place of the latest Revision of its Declaration.
createRevisionRowsReplacing(in) ==
    /\ revisions' =
          IF \E i \in 1 .. Len(revisions) : revisions[i].declarationId = in.declarationId
          THEN [revisions EXCEPT
                  ![CHOOSE i \in 1 .. Len(revisions) :
                       /\ revisions[i].declarationId = in.declarationId
                       /\ \A j \in (i + 1) .. Len(revisions) :
                             revisions[j].declarationId # in.declarationId]
                     = revisionRow(in)]
          ELSE Append(revisions, revisionRow(in))
    /\ UNCHANGED <<works, declarations, audioRefs>>

createRevisionRows(in) ==
    /\ revisions' = Append(revisions, revisionRow(in))
    /\ UNCHANGED <<works, declarations, audioRefs>>

createRevision(in) ==
    IF createRevisionError(in) # NoError
    THEN /\ result' = [op |-> "createRevision", input |-> in,
                       error |-> createRevisionError(in), value |-> NULL]
         /\ UNCHANGED <<works, declarations, audioRefs, revisions, now, uploaded, rewardVars>>
    ELSE /\ Len(revisions) < MaxRevisions
         /\ createRevisionRows(in)
         /\ result' = [op |-> "createRevision", input |-> in, error |-> NoError,
                       value |-> NULL]
         /\ UNCHANGED <<now, uploaded, rewardVars>>


---------------------------------------------------------------------------
(* getWork and exportWorkAsJson *)

\* The rows of a table that belong to a Declaration, in insertion order.
rowsOf(table, declId) == SelectSeq(table, LAMBDA r : r.declarationId = declId)

\* orderBy: { createdAt: 'asc' }.  The database returns the rows sorted by
\* createdAt and settles nothing about rows of equal createdAt: every such order
\* is a possible answer.
orderedByCreatedAt(rows, order) ==
    \A i \in 1 .. Len(rows), j \in 1 .. Len(rows) :
        i < j => rows[order[i]].createdAt <= rows[order[j]].createdAt

createdAtAsc(rows) ==
    LET n == Len(rows)
        orders == { f \in [1 .. n -> 1 .. n] :
                      /\ \A i \in 1 .. n, j \in 1 .. n : i # j => f[i] # f[j]
                      /\ orderedByCreatedAt(rows, f) }
    IN  { [i \in 1 .. n |-> rows[f[i]]] : f \in orders }

\* prisma.work.findUnique({ where: { id } })
findWork(id) ==
    IF \E i \in 1 .. Len(works) : works[i].id = id
    THEN works[CHOOSE i \in 1 .. Len(works) : works[i].id = id]
    ELSE NoRow

\* The Declaration of a Work (the 1:1 relation, by workId).
declarationOf(workId) ==
    IF \E i \in 1 .. Len(declarations) : declarations[i].workId = workId
    THEN declarations[CHOOSE i \in 1 .. Len(declarations) :
                          declarations[i].workId = workId]
    ELSE NoRow

\* What getWork(id) can return: null, or the Work with its Declaration, the
\* Revisions and the AudioReferences, each list in one of the orders of the database.
getWorkResults(id) ==
    IF findWork(id) = NoRow THEN { NoRow }
    ELSE LET w == findWork(id)
             d == declarationOf(w.id)
         IN  { [ id |-> w.id, title |-> w.title, createdAt |-> w.createdAt,
                 declaration |-> d, revisions |-> rs, audioRefs |-> as ]
               : rs \in createdAtAsc(rowsOf(revisions, d.id)),
                 as \in createdAtAsc(rowsOf(audioRefs, d.id)) }

getWork(id) ==
    /\ \E w \in getWorkResults(id) :
          result' = [op |-> "getWork", input |-> id, error |-> NoError, value |-> w]
    /\ UNCHANGED <<works, declarations, audioRefs, revisions, now, uploaded, rewardVars>>

\* Date.prototype.toISOString(): a text that determines the instant.
toISOString(t) == <<"iso", t>>

\* Mutant: the document without the declaration.
exportDocumentNoDeclaration(work) ==
    [ protocol |-> "CTAD", version |-> "1.1", exportedAt |-> toISOString(now),
      work |-> [ id |-> work.id, title |-> work.title,
                 createdAt |-> toISOString(work.createdAt) ],
      declaration |-> NoRow,
      audioReferences |-> <<>>,
      revisions |-> <<>> ]

exportDocument(work) ==
    [ protocol |-> "CTAD",
      version |-> "1.1",
      exportedAt |-> toISOString(now),
      work |-> [ id |-> work.id, title |-> work.title,
                 createdAt |-> toISOString(work.createdAt) ],
      declaration |->
          IF work.declaration = NoRow THEN NoRow
          ELSE [ id |-> work.declaration.id,
                 createdAt |-> toISOString(work.declaration.createdAt),
                 intent |-> work.declaration.intent,
                 tools |-> work.declaration.tools,
                 aiUsed |-> work.declaration.aiUsed,
                 contributors |-> work.declaration.contributors ],
      audioReferences |->
          [ i \in 1 .. Len(work.audioRefs) |->
              [ id |-> work.audioRefs[i].id,
                createdAt |-> toISOString(work.audioRefs[i].createdAt),
                fileName |-> work.audioRefs[i].fileName,
                sha256 |-> work.audioRefs[i].sha256,
                description |-> work.audioRefs[i].description ] ],
      revisions |->
          [ i \in 1 .. Len(work.revisions) |->
              [ id |-> work.revisions[i].id,
                createdAt |-> toISOString(work.revisions[i].createdAt),
                changeNote |-> work.revisions[i].changeNote,
                intent |-> work.revisions[i].intent,
                tools |-> work.revisions[i].tools,
                aiUsed |-> work.revisions[i].aiUsed,
                contributors |-> work.revisions[i].contributors ] ] ]

exportWorkAsJson(id) ==
    /\ \E w \in getWorkResults(id) :
          result' = [op |-> "export", input |-> id, error |-> NoError,
                     value |-> IF w = NoRow THEN NoRow ELSE exportDocument(w)]
    /\ UNCHANGED <<works, declarations, audioRefs, revisions, now, uploaded, rewardVars>>

\* GET /api/works/[id]/export: 404 when exportWorkAsJson returns null, else the
\* document as the body of the answer.
exportResponse(data) ==
    IF data = NoRow
    THEN [status |-> 404, body |-> [error |-> "Work not found"]]
    ELSE [status |-> 200, body |-> data]

GET(id) ==
    /\ \E w \in getWorkResults(id) :
          result' = [op |-> "GET", input |-> id, error |-> NoError,
                     value |-> exportResponse(IF w = NoRow THEN NoRow
                                              ELSE exportDocument(w))]
    /\ UNCHANGED <<works, declarations, audioRefs, revisions, now, uploaded, rewardVars>>

\* The identifiers asked for: those of the Works, and one of no Work.
WorkIds == { WorkId(n) : n \in 1 .. (MaxWorks + 1) }

---------------------------------------------------------------------------
(* The clock *)

Tick ==
    /\ now < MaxClock
    /\ now' = now + 1
    /\ UNCHANGED <<works, declarations, audioRefs, revisions, uploaded, rewardVars,
                   result>>

---------------------------------------------------------------------------
(* Decimal literals: the fraction <<n, d>> in lowest terms, d > 0 *)

RECURSIVE GCD(_, _)
GCD(a, b) == IF b = 0 THEN a ELSE GCD(b, a % b)

Abs(x) == IF x < 0 THEN -x ELSE x

Frac(n, d) ==
    LET g == GCD(Abs(n), Abs(d))
        sgn == IF d < 0 THEN -1 ELSE 1
    IN  <<sgn * (n \div g), sgn * (d \div g)>>

Whole(n) == <<n, 1>>

Half == <<1, 2>>

Min(a, b) == IF a <= b THEN a ELSE b

---------------------------------------------------------------------------
(* Numbers of the code: IEEE 754 doubles *)

\* A natural number of any size is the sequence of its digits in base Limb, the
\* lowest first, with no zero at the top; zero is the empty sequence.
LimbBits == 13

Limb == 8192

RECURSIVE pow2(_)
pow2(k) == IF k = 0 THEN 1 ELSE 2 * pow2(k - 1)

RECURSIVE bigOf(_)
bigOf(n) == IF n = 0 THEN <<>> ELSE <<n % Limb>> \o bigOf(n \div Limb)

RECURSIVE bigInt(_)
bigInt(x) == IF x = <<>> THEN 0 ELSE x[1] + Limb * bigInt(Tail(x))

rest(x) == IF x = <<>> THEN <<>> ELSE Tail(x)

lowLimb(x) == IF x = <<>> THEN 0 ELSE x[1]

\* A digit put under the digits of x.
under(digit, x) == IF digit = 0 /\ x = <<>> THEN <<>> ELSE <<digit>> \o x

RECURSIVE bigAddCarry(_, _, _)
bigAddCarry(x, y, carry) ==
    IF x = <<>> /\ y = <<>> THEN bigOf(carry)
    ELSE LET sum == lowLimb(x) + lowLimb(y) + carry
         IN  under(sum % Limb, bigAddCarry(rest(x), rest(y), sum \div Limb))

bigAdd(x, y) == bigAddCarry(x, y, 0)

\* x - y - borrow, for x >= y + borrow.
RECURSIVE bigSubBorrow(_, _, _)
bigSubBorrow(x, y, borrow) ==
    IF x = <<>> THEN <<>>
    ELSE LET diff == lowLimb(x) - lowLimb(y) - borrow
         IN  under(diff % Limb,
                   bigSubBorrow(rest(x), rest(y), IF diff < 0 THEN 1 ELSE 0))

bigSub(x, y) == bigSubBorrow(x, y, 0)

\* x * k + carry, for k <= Limb.
RECURSIVE bigTimes(_, _, _)
bigTimes(x, k, carry) ==
    IF x = <<>> THEN bigOf(carry)
    ELSE LET product == x[1] * k + carry
         IN  under(product % Limb, bigTimes(Tail(x), k, product \div Limb))

RECURSIVE bigMul(_, _)
bigMul(x, y) ==
    IF y = <<>> THEN <<>>
    ELSE bigAdd(bigTimes(x, y[1], 0), under(0, bigMul(x, Tail(y))))

\* <<quotient, remainder>> of x by d, for 0 < d <= Limb.
RECURSIVE bigDivRem(_, _)
bigDivRem(x, d) ==
    IF x = <<>> THEN << <<>>, 0 >>
    ELSE LET high == bigDivRem(Tail(x), d)
             current == high[2] * Limb + x[1]
         IN  << under(current \div d, high[1]), current % d >>

RECURSIVE bigLess(_, _)
bigLess(x, y) ==
    IF Len(x) # Len(y) THEN Len(x) < Len(y)
    ELSE IF x = <<>> THEN FALSE
    ELSE IF x[Len(x)] # y[Len(y)] THEN x[Len(x)] < y[Len(y)]
    ELSE bigLess(SubSeq(x, 1, Len(x) - 1), SubSeq(y, 1, Len(y) - 1))

\* x * 2^k and the whole part of x / 2^k.
bigShl(x, k) ==
    IF x = <<>> THEN <<>>
    ELSE [i \in 1 .. k \div LimbBits |-> 0] \o bigTimes(x, pow2(k % LimbBits), 0)

bigShr(x, k) ==
    IF Len(x) <= k \div LimbBits THEN <<>>
    ELSE bigDivRem(SubSeq(x, k \div LimbBits + 1, Len(x)), pow2(k % LimbBits))[1]

RECURSIVE bitLength(_)
bitLength(n) == IF n = 0 THEN 0 ELSE 1 + bitLength(n \div 2)

bigBitLength(x) ==
    IF x = <<>> THEN 0 ELSE LimbBits * (Len(x) - 1) + bitLength(x[Len(x)])

\* A double is its sign, its mantissa m (odd, of at most 53 bits) and its
\* exponent e: the number m * 2^e.  Zero has the empty mantissa (no sign is kept
\* for it); infinities, NaN and subnormal numbers are not represented.
MantissaBits == 53

Zero == [neg |-> FALSE, m |-> <<>>, e |-> 0]

RECURSIVE oddMantissa(_, _, _)
oddMantissa(neg, m, e) ==
    IF m = <<>> THEN Zero
    ELSE IF m[1] = 0 THEN oddMantissa(neg, Tail(m), e + LimbBits)
    ELSE IF m[1] % 2 = 0 THEN oddMantissa(neg, bigShr(m, 1), e + 1)
    ELSE [neg |-> neg, m |-> m, e |-> e]

\* The double nearest to m * 2^e, a tie going to the even mantissa.
nearestDouble(neg, m, e) ==
    IF bigBitLength(m) <= MantissaBits THEN oddMantissa(neg, m, e)
    ELSE LET dropped == bigBitLength(m) - MantissaBits
             kept == bigShr(m, dropped)
             remainder == bigSub(m, bigShl(kept, dropped))
             half == bigShl(<<1>>, dropped - 1)
             up == bigLess(half, remainder) \/ (remainder = half /\ kept[1] % 2 = 1)
         IN  oddMantissa(neg, IF up THEN bigAdd(kept, <<1>>) ELSE kept, e + dropped)

\* The double nearest to m * 2^e / d, for 0 < d <= Limb: the quotient is taken
\* to more bits than a mantissa has, a remainder making its last bit 1.
nearestQuotient(neg, m, e, d) ==
    LET division == bigDivRem(bigShl(m, 5 * LimbBits), d)
        sticky == IF division[2] = 0 THEN 0 ELSE 1
    IN  nearestDouble(neg, bigTimes(division[1], 2, sticky), e - 5 * LimbBits - 1)

\* The double a decimal literal stands for: the fraction <<n, d>> rounded once.
toDouble(x) ==
    nearestQuotient(x[1] < 0, bigOf(Abs(x[1])), 0, x[2])

\* a * b
doubleMul(a, b) == nearestDouble(a.neg # b.neg, bigMul(a.m, b.m), a.e + b.e)

\* a + b
doubleAdd(a, b) ==
    LET e == IF a.e <= b.e THEN a.e ELSE b.e
        x == bigShl(a.m, a.e - e)
        y == bigShl(b.m, b.e - e)
    IN  IF a.neg = b.neg THEN nearestDouble(a.neg, bigAdd(x, y), e)
        ELSE IF bigLess(x, y) THEN nearestDouble(b.neg, bigSub(y, x), e)
        ELSE nearestDouble(a.neg, bigSub(x, y), e)

\* a - b
doubleSub(a, b) == doubleAdd(a, [b EXCEPT !.neg = ~b.neg])

\* a <= b
doubleLeq(a, b) ==
    LET difference == doubleSub(b, a)
    IN  difference.m = <<>> \/ ~difference.neg

\* Math.min(a, b) and Math.max(a, b)
MathMin(a, b) == IF doubleLeq(a, b) THEN a ELSE b

MathMax(a, b) == IF doubleLeq(a, b) THEN b ELSE a

\* Mutant: Math.floor(a) for a >= 0.
MathFloor(a) ==
    IF a.e >= 0 THEN bigInt(bigShl(a.m, a.e))
    ELSE bigInt(bigShr(a.m, -a.e))

\* Math.round(a) for a >= 0: the whole part of a + 1/2.
MathRound(a) ==
    IF a.e >= 0 THEN bigInt(bigShl(a.m, a.e))
    ELSE bigInt(bigShr(bigAdd(a.m, bigShl(<<1>>, -a.e - 1)), -a.e))

---------------------------------------------------------------------------
(* Values of the payload *)

\* An optional value of the payload: absent, or the value.
None == <<>>

Some(x) == <<x>>

---------------------------------------------------------------------------
(* Tiers and platforms *)

CuratorMin == 100

TastemakerMin == 500

OracleMin == 2000

TIER_THRESHOLDS_LOCAL ==
    [ explorer |-> [min |-> 0], curator |-> [min |-> CuratorMin],
      tastemaker |-> [min |-> TastemakerMin], oracle |-> [min |-> OracleMin] ]

\* Mutant: the thresholds compared with > and not >=.
calculateTierStrict(totalPoints) ==
    IF totalPoints > TIER_THRESHOLDS_LOCAL.oracle.min THEN "oracle"
    ELSE IF totalPoints > TIER_THRESHOLDS_LOCAL.tastemaker.min THEN "tastemaker"
    ELSE IF totalPoints > TIER_THRESHOLDS_LOCAL.curator.min THEN "curator"
    ELSE "explorer"

calculateTier(totalPoints) ==
    IF totalPoints >= TIER_THRESHOLDS_LOCAL.oracle.min THEN "oracle"
    ELSE IF totalPoints >= TIER_THRESHOLDS_LOCAL.tastemaker.min THEN "tastemaker"
    ELSE IF totalPoints >= TIER_THRESHOLDS_LOCAL.curator.min THEN "curator"
    ELSE "explorer"

\* tier.toUpperCase(), and currentTier.toLowerCase() back.
tierToPrismaEnum(tier) ==
    CASE tier = "explorer" -> "EXPLORER"
      [] tier = "curator" -> "CURATOR"
      [] tier = "tastemaker" -> "TASTEMAKER"
      [] tier = "oracle" -> "ORACLE"

tierToLowerCase(tier) ==
    CASE tier = "EXPLORER" -> "explorer"
      [] tier = "CURATOR" -> "curator"
      [] tier = "TASTEMAKER" -> "tastemaker"
      [] tier = "ORACLE" -> "oracle"

UpperCase == <<"A", "B", "C", "D", "E", "F", "G", "H", "I", "J", "K", "L", "M",
               "N", "O", "P", "Q", "R", "S", "T", "U", "V", "W", "X", "Y", "Z">>

LowerCase == <<"a", "b", "c", "d", "e", "f", "g", "h", "i", "j", "k", "l", "m",
               "n", "o", "p", "q", "r", "s", "t", "u", "v", "w", "x", "y", "z">>

\* String.prototype.toLowerCase(), character by character.
toLowerCase(s) ==
    [i \in 1 .. Len(s) |->
        IF \E k \in 1 .. Len(UpperCase) : UpperCase[k] = s[i]
        THEN LowerCase[CHOOSE k \in 1 .. Len(UpperCase) : UpperCase[k] = s[i]]
        ELSE s[i]]

platformMap ==
    { <<<<"m", "i", "d", "j", "o", "u", "r", "n", "e", "y">>, "MIDJOURNEY">>,
      <<<<"s", "u", "n", "o">>, "SUNO">>,
      <<<<"u", "d", "i", "o">>, "UDIO">>,
      <<<<"r", "u", "n", "w", "a", "y">>, "RUNWAY">>,
      <<<<"p", "i", "k", "a">>, "PIKA">>,
      <<<<"d", "a", "l", "l", "e">>, "DALLE">>,
      <<<<"f", "l", "u", "x">>, "FLUX">>,
      <<<<"l", "e", "o", "n", "a", "r", "d", "o">>, "LEONARDO">>,
      <<<<"s", "t", "a", "b", "l", "e", "-", "d", "i", "f", "f", "u", "s", "i", "o", "n">>, "STABLE_DIFFUSION">>,
      <<<<"h", "i", "g", "g", "s", "f", "i", "e", "l", "d">>, "HIGGSFIELD">>,
      <<<<"c", "h", "a", "t", "g", "p", "t">>, "CHATGPT">>,
      <<<<"c", "l", "a", "u", "d", "e">>, "CLAUDE">> }

\* platformMap is an object literal: besides its own twelve properties it has the
\* properties every object inherits from Object.prototype, whose values are
\* functions and objects (written here as the console shows them).
ObjectPrototype ==
    { <<<<"c", "o", "n", "s", "t", "r", "u", "c", "t", "o", "r">>, "[Function: Object]">>,
      <<<<"_", "_", "p", "r", "o", "t", "o", "_", "_">>, "[Object: null prototype] {}">>,
      <<<<"t", "o", "S", "t", "r", "i", "n", "g">>, "[Function: toString]">>,
      <<<<"v", "a", "l", "u", "e", "O", "f">>, "[Function: valueOf]">>,
      <<<<"h", "a", "s", "O", "w", "n", "P", "r", "o", "p", "e", "r", "t", "y">>, "[Function: hasOwnProperty]">>,
      <<<<"i", "s", "P", "r", "o", "t", "o", "t", "y", "p", "e", "O", "f">>, "[Function: isPrototypeOf]">>,
      <<<<"p", "r", "o", "p", "e", "r", "t", "y", "I", "s", "E", "n", "u", "m", "e", "r", "a", "b", "l", "e">>, "[Function: propertyIsEnumerable]">>,
      <<<<"t", "o", "L", "o", "c", "a", "l", "e", "S", "t", "r", "i", "n", "g">>, "[Function: toLocaleString]">>,
      <<<<"_", "_", "d", "e", "f", "i", "n", "e", "G", "e", "t", "t", "e", "r", "_", "_">>, "[Function: __defineGetter__]">>,
      <<<<"_", "_", "d", "e", "f", "i", "n", "e", "S", "e", "t", "t", "e", "r", "_", "_">>, "[Function: __defineSetter__]">>,
      <<<<"_", "_", "l", "o", "o", "k", "u", "p", "G", "e", "t", "t", "e", "r", "_", "_">>, "[Function: __lookupGetter__]">>,
      <<<<"_", "_", "l", "o", "o", "k", "u", "p", "S", "e", "t", "t", "e", "r", "_", "_">>, "[Function: __lookupSetter__]">> }

\* platformMap[key]: the own property, else the inherited one, else undefined
\* (None).
platformMapLookup(key) ==
    IF \E e \in platformMap : e[1] = key
    THEN Some((CHOOSE e \in platformMap : e[1] = key)[2])
    ELSE IF \E e \in ObjectPrototype : e[1] = key
    THEN Some((CHOOSE e \in ObjectPrototype : e[1] = key)[2])
    ELSE None

\* platformMap[platform.toLowerCase()] || 'UNKNOWN'
mapPlatformToEnum(platform) ==
    LET found == platformMapLookup(toLowerCase(platform))
    IN  IF found # None THEN found[1] ELSE "UNKNOWN"

\* The rarity weights, in tenths.
PLATFORM_RARITY_LOCAL ==
    [ MIDJOURNEY |-> 8, CHATGPT |-> 7, DALLE |-> 9, STABLE_DIFFUSION |-> 10,
      SUNO |-> 12, UDIO |-> 13, RUNWAY |-> 14, PIKA |-> 15, HIGGSFIELD |-> 18,
      FLUX |-> 13, LEONARDO |-> 11, CLAUDE |-> 9, UNKNOWN |-> 10 ]

\* PLATFORM_RARITY_LOCAL[platformEnum] || 1.0
rarityBonus(in) ==
    LET platformEnum == mapPlatformToEnum(in.platform)
    IN  IF platformEnum \in DOMAIN PLATFORM_RARITY_LOCAL
           /\ PLATFORM_RARITY_LOCAL[platformEnum] # 0
        THEN Frac(PLATFORM_RARITY_LOCAL[platformEnum], 10)
        ELSE Whole(1)

---------------------------------------------------------------------------
(* calculateTier on its own *)

calculateTierCall(totalPoints) ==
    /\ result' = [op |-> "calculateTier", input |-> totalPoints, error |-> NoError,
                  value |-> calculateTier(totalPoints)]
    /\ UNCHANGED <<ledgerVars, rewardVars>>

NextTier == \E totalPoints \in (-2) .. MaxTotalPoints : calculateTierCall(totalPoints)

SpecTier == Init /\ [][NextTier]_vars

---------------------------------------------------------------------------
(* calculateContributionReward *)

\* if (text): an optional string that is there and is not the empty string.
truthyText(x) == x # None /\ x[1] # ""

\* Lines 173-207: the base points of a payload.
basePoints(in) ==
    10
    + Min(Len(in.promptLineage) * 2, 20)
    + Min(Len(in.rejectedOutputs) * 3, 30)
    + (IF in.selectedOutput # None
       THEN 10 + (IF truthyText(in.selectedOutput[1].likeReason) THEN 5 ELSE 0)
               + (IF truthyText(in.selectedOutput[1].customFeedback) THEN 10 ELSE 0)
       ELSE 0)
    + (IF in.sessionDuration # None /\ in.sessionDuration[1] # 0
       THEN (IF in.sessionDuration[1] >= 15 * 60 THEN 10
             ELSE IF in.sessionDuration[1] >= 5 * 60 THEN 5
             ELSE IF in.sessionDuration[1] >= 2 * 60 THEN 2
             ELSE 0)
       ELSE 0)
    + (IF in.expertiseTags # None /\ Len(in.expertiseTags[1]) > 0
       THEN Min(Len(in.expertiseTags[1]) * 2, 6)
       ELSE 0)

\* Mutant: the lookup that takes the first row, whatever its anonymousId.
findContributorAny(rows, anonymousId) == IF rows = <<>> THEN NoRow ELSE rows[1]

\* prisma.contributor.findUnique({ where: { anonymousId } })
findContributor(rows, anonymousId) ==
    IF \E i \in 1 .. Len(rows) : rows[i].anonymousId = anonymousId
    THEN rows[CHOOSE i \in 1 .. Len(rows) : rows[i].anonymousId = anonymousId]
    ELSE NoRow

ContributorId(n) == <<"c", ToString(n)>>

\* input.expertiseTags || []
tagsOrEmpty(in) == IF in.expertiseTags = None THEN <<>> ELSE in.expertiseTags[1]

\* The tags a contribution of this contributor gives.
tagsGiven(anonymousId, in) ==
    { <<anonymousId, tagsOrEmpty(in)[i]>> : i \in 1 .. Len(tagsOrEmpty(in)) }

\* Mutant: a new contributor that starts at taste score 0.
newContributorZeroScore(rows, anonymousId, in) ==
    [ id |-> ContributorId(Len(rows) + 1),
      anonymousId |-> anonymousId,
      totalContributions |-> 0,
      totalPoints |-> 0,
      currentTier |-> "EXPLORER",
      tasteScore |-> Zero,
      expertiseTags |-> tagsOrEmpty(in),
      platformStats |-> << >>,
      consentVersion |-> None,
      consentTimestamp |-> None ]

\* prisma.contributor.create of lines 218-227.
newContributor(rows, anonymousId, in) ==
    [ id |-> ContributorId(Len(rows) + 1),
      anonymousId |-> anonymousId,
      totalContributions |-> 0,
      totalPoints |-> 0,
      currentTier |-> "EXPLORER",
      tasteScore |-> toDouble(Half),
      expertiseTags |-> tagsOrEmpty(in),
      platformStats |-> << >>,
      consentVersion |-> None,
      consentTimestamp |-> None ]

\* The table once the contributor was looked up and, when missing, created.
withContributor(rows, anonymousId, in) ==
    IF findContributor(rows, anonymousId) = NoRow
    THEN Append(rows, newContributor(rows, anonymousId, in))
    ELSE rows

\* 0.5 + contributor.tasteScore
qualityMultiplier(contributor) == doubleAdd(toDouble(Half), contributor.tasteScore)

\* Math.round(basePoints * qualityMultiplier * rarityBonus): the product is taken
\* from the left, each product rounded to a double.
pointsEarned(contributor, in) ==
    MathRound(doubleMul(doubleMul(toDouble(Whole(basePoints(in))),
                                  qualityMultiplier(contributor)),
                        toDouble(rarityBonus(in))))

\* The Set of the existing tags with the tags of the payload added, as an array.
RECURSIVE mergeTags(_, _)
mergeTags(existing, tags) ==
    IF tags = <<>> THEN existing
    ELSE IF \E i \in 1 .. Len(existing) : existing[i] = Head(tags)
         THEN mergeTags(existing, Tail(tags))
         ELSE mergeTags(Append(existing, Head(tags)), Tail(tags))

\* Lines 264-269: platformStats is a sequence of entries, one per key.
hasPlatform(stats, key) == \E i \in 1 .. Len(stats) : stats[i].key = key

\* A key that platformStats, a plain object, inherits from Object.prototype.
inherited(key) == \E e \in ObjectPrototype : e[1] = key

\* The entry of the key, created when absent, has one contribution more.
countedPlatform(stats, platformKey) ==
    LET present == IF hasPlatform(stats, platformKey) THEN stats
                   ELSE Append(stats, [key |-> platformKey, contributions |-> 0,
                                       accuracy |-> toDouble(Half)])
    IN  [i \in 1 .. Len(present) |->
            IF present[i].key = platformKey
            THEN [present[i] EXCEPT !.contributions = @ + 1]
            ELSE present[i]]

\* Mutant: the counters keyed by the platform as it was written.
updatedPlatformStatsRawKey(stats, in) == countedPlatform(stats, in.platform)

\* platformStats[platformKey] of an inherited key is the inherited function or
\* object, which is truthy: no entry is created, and contributions += 1 is
\* written on that function or object, not on platformStats.
updatedPlatformStats(stats, in) ==
    LET platformKey == toLowerCase(in.platform)
    IN  IF ~hasPlatform(stats, platformKey) /\ inherited(platformKey)
        THEN stats
        ELSE countedPlatform(stats, platformKey)

\* Mutant: the tier taken from the points of this contribution alone.
updatedContributorTierOfReward(contributor, in) ==
    LET points == pointsEarned(contributor, in)
    IN
    [ contributor EXCEPT
        !.totalContributions = contributor.totalContributions + 1,
        !.totalPoints = contributor.totalPoints + points,
        !.currentTier = tierToPrismaEnum(calculateTier(points)),
        !.expertiseTags = mergeTags(mergeTags(<<>>, contributor.expertiseTags),
                                    tagsOrEmpty(in)),
        !.platformStats = updatedPlatformStats(contributor.platformStats, in),
        !.consentVersion = IF in.consentVersion # None THEN in.consentVersion
                           ELSE contributor.consentVersion,
        !.consentTimestamp = IF in.consentTimestamp # None THEN in.consentTimestamp
                             ELSE contributor.consentTimestamp ]

\* The data of prisma.contributor.update (lines 271-282), from the row that was read.
updatedContributor(contributor, in) ==
    LET newTotal == contributor.totalPoints + pointsEarned(contributor, in)
    IN
    [ contributor EXCEPT
        !.totalContributions = contributor.totalContributions + 1,
        !.totalPoints = newTotal,
        !.currentTier = tierToPrismaEnum(calculateTier(newTotal)),
        !.expertiseTags = mergeTags(mergeTags(<<>>, contributor.expertiseTags),
                                    tagsOrEmpty(in)),
        !.platformStats = updatedPlatformStats(contributor.platformStats, in),
        !.consentVersion = IF in.consentVersion # None THEN in.consentVersion
                           ELSE contributor.consentVersion,
        !.consentTimestamp = IF in.consentTimestamp # None THEN in.consentTimestamp
                             ELSE contributor.consentTimestamp ]

\* Mutant: a tier change reported whenever the new tier is not the first one.
contributorRewardFromExplorer(contributor, in) ==
    LET points == pointsEarned(contributor, in)
        newTotal == contributor.totalPoints + points
        previousTier == tierToLowerCase(contributor.currentTier)
        newTier == calculateTier(newTotal)
    IN  [ pointsEarned |-> points,
          newTotal |-> newTotal,
          tierChange |-> IF newTier # "explorer"
                         THEN Some([from |-> previousTier, to |-> newTier])
                         ELSE None,
          qualityMultiplier |-> qualityMultiplier(contributor),
          rarityBonus |-> toDouble(rarityBonus(in)) ]

\* The ContributorReward returned (lines 288-296).
contributorReward(contributor, in) ==
    LET points == pointsEarned(contributor, in)
        newTotal == contributor.totalPoints + points
        previousTier == tierToLowerCase(contributor.currentTier)
        newTier == calculateTier(newTotal)
    IN  [ pointsEarned |-> points,
          newTotal |-> newTotal,
          tierChange |-> IF newTier # previousTier
                         THEN Some([from |-> previousTier, to |-> newTier])
                         ELSE None,
          qualityMultiplier |-> qualityMultiplier(contributor),
          rarityBonus |-> toDouble(rarityBonus(in)) ]

\* The history of the rewards returned, with one more for this contributor.
reported(history, anonymousId, reward) ==
    [history EXCEPT ![anonymousId] = [rewards |-> @.rewards + 1,
                                      points |-> @.points + reward.pointsEarned]]

\* prisma.contributor.update({ where: { id } }): the row of that id is replaced.
writeContributor(rows, row) ==
    [i \in 1 .. Len(rows) |-> IF rows[i].id = row.id THEN row ELSE rows[i]]

\* The contributions and the taste-score updates the table holds: what the bounds
\* are put on.
RECURSIVE contributionsOf(_)
contributionsOf(rows) ==
    IF rows = <<>> THEN 0
    ELSE Head(rows).totalContributions + contributionsOf(Tail(rows))

contributionsStored == contributionsOf(contributorRows)

\* One reward computation, run from its first line to its last with no other
\* request in between.
computeReward(anonymousId, in) ==
    LET rows == withContributor(contributorRows, anonymousId, in)
        contributor == findContributor(rows, anonymousId)
    IN  /\ contributorRows' = writeContributor(rows, updatedContributor(contributor, in))
        /\ result' = [op |-> "calculateContributionReward",
                      input |-> [contributorId |-> anonymousId, payload |-> in],
                      error |-> NoError,
                      value |-> contributorReward(contributor, in)]
        /\ completedTags' = completedTags \cup tagsGiven(anonymousId, in)
        /\ rewardsReported' =
              reported(rewardsReported, anonymousId, contributorReward(contributor, in))
        /\ UNCHANGED <<ledgerVars, processDeclarations, inFlight, tasteUpdates>>

calculateContributionReward(anonymousId, in) ==
    /\ contributionsStored < MaxContributions
    /\ computeReward(anonymousId, in)

---------------------------------------------------------------------------
(* updateTasteScore *)

\* const alpha = 0.2
alpha == toDouble(Frac(1, 5))

\* Mutant: the score kept as computed.
clamp01Missing(x) == x

\* Math.max(0, Math.min(1, x))
clamp01(x) == MathMax(Zero, MathMin(toDouble(Whole(1)), x))

\* contributor.tasteScore * (1 - alpha) + alignmentScore * alpha
newTasteScore(tasteScore, alignmentScore) ==
    doubleAdd(doubleMul(tasteScore, doubleSub(toDouble(Whole(1)), alpha)),
              doubleMul(alignmentScore, alpha))

\* Mutant: an update that creates the contributor it does not find.
storeTasteScoreUpsert(anonymousId, alignmentScore) ==
    LET rows == withContributor(contributorRows, anonymousId, [expertiseTags |-> None])
        contributor == findContributor(rows, anonymousId)
        clampedScore == clamp01(newTasteScore(contributor.tasteScore, alignmentScore))
    IN  /\ contributorRows' =
              writeContributor(rows, [contributor EXCEPT !.tasteScore = clampedScore])
        /\ result' = [op |-> "updateTasteScore",
                      input |-> [contributorId |-> anonymousId,
                                 alignmentScore |-> alignmentScore],
                      error |-> NoError, value |-> clampedScore]
        /\ tasteUpdates' = tasteUpdates + 1
        /\ UNCHANGED <<ledgerVars, processDeclarations, inFlight, completedTags,
                             rewardsReported>>

\* One call of updateTasteScore, run from its first line to its last.
storeTasteScore(anonymousId, alignmentScore) ==
    LET contributor == findContributor(contributorRows, anonymousId)
    IN  IF contributor = NoRow
        THEN /\ result' = [op |-> "updateTasteScore",
                           input |-> [contributorId |-> anonymousId,
                                      alignmentScore |-> alignmentScore],
                           error |-> NoError, value |-> toDouble(Half)]
             /\ UNCHANGED <<ledgerVars, rewardVars>>
        ELSE LET clampedScore ==
                     clamp01(newTasteScore(contributor.tasteScore, alignmentScore))
             IN  /\ contributorRows' =
                       writeContributor(contributorRows,
                           [contributor EXCEPT !.tasteScore = clampedScore])
                 /\ result' = [op |-> "updateTasteScore",
                               input |-> [contributorId |-> anonymousId,
                                          alignmentScore |-> alignmentScore],
                               error |-> NoError, value |-> clampedScore]
                 /\ tasteUpdates' = tasteUpdates + 1
                 /\ UNCHANGED <<ledgerVars, processDeclarations, inFlight, completedTags,
                             rewardsReported>>

updateTasteScore(anonymousId, alignmentScore) ==
    /\ findContributor(contributorRows, anonymousId) # NoRow
          => tasteUpdates < MaxTasteUpdates
    /\ storeTasteScore(anonymousId, alignmentScore)

---------------------------------------------------------------------------
(* The payloads and the contributors tried *)

entries(n) == [i \in 1 .. n |-> [id |-> i]]

\* A bare contribution on a common platform, written in mixed case.
BarePayload ==
    [ platform |-> <<"C", "h", "a", "t", "G", "P", "T">>, promptLineage |-> <<>>, rejectedOutputs |-> <<>>,
      selectedOutput |-> None, sessionDuration |-> None, expertiseTags |-> None,
      consentVersion |-> None, consentTimestamp |-> None ]

\* The example of the specification: 56 base points.
ExamplePayload ==
    [ platform |-> <<"s", "t", "a", "b", "l", "e", "-", "d", "i", "f", "f", "u", "s", "i", "o", "n">>, promptLineage |-> entries(5),
      rejectedOutputs |-> entries(2),
      selectedOutput |-> Some([likeReason |-> Some("style"),
                               customFeedback |-> Some("text")]),
      sessionDuration |-> Some(600), expertiseTags |-> Some(<<>>),
      consentVersion |-> Some("1.0"), consentTimestamp |-> Some(0) ]

\* Every part of the base points at its cap, on the rarest platform.
FullPayload ==
    [ platform |-> <<"h", "i", "g", "g", "s", "f", "i", "e", "l", "d">>, promptLineage |-> entries(11),
      rejectedOutputs |-> entries(11),
      selectedOutput |-> Some([likeReason |-> Some("style"),
                               customFeedback |-> Some("text")]),
      sessionDuration |-> Some(900),
      expertiseTags |-> Some(<<"music", "video", "music", "art">>),
      consentVersion |-> Some("1.0"), consentTimestamp |-> Some(1) ]

\* A platform that is not known, a selection with no reason, a short session.
UnknownPayload ==
    [ platform |-> <<"s", "o", "r", "a">>, promptLineage |-> entries(1),
      rejectedOutputs |-> <<>>,
      selectedOutput |-> Some([likeReason |-> None, customFeedback |-> None]),
      sessionDuration |-> Some(120), expertiseTags |-> Some(<<"art">>),
      consentVersion |-> Some("1.0"), consentTimestamp |-> Some(1) ]

RewardInputs == { BarePayload, ExamplePayload, FullPayload, UnknownPayload }

\* alignmentScore: inside [0,1], and far enough outside for the average to leave
\* [0,1].
AlignmentScores ==
    { toDouble(Whole(0)), toDouble(Half), toDouble(Whole(1)), toDouble(Whole(4)),
      toDouble(Whole(-3)) }

NextReward ==
    \/ \E id \in AnonymousIds, in \in RewardInputs : calculateContributionReward(id, in)
    \/ \E id \in AnonymousIds, a \in AlignmentScores : updateTasteScore(id, a)

SpecReward == Init /\ [][NextReward]_vars

---------------------------------------------------------------------------
(* The taste score followed over several updates: the alignment scores tried
   include the scores the contributors have now *)

storedScores == { contributorRows[i].tasteScore : i \in 1 .. Len(contributorRows) }

tasteReward(anonymousId, in) ==
    /\ contributionsStored < MaxTasteContributions
    /\ computeReward(anonymousId, in)

tasteScoreCall(anonymousId, alignmentScore) ==
    /\ tasteUpdates < MaxTasteChain
    /\ storeTasteScore(anonymousId, alignmentScore)

NextTaste ==
    \/ \E id \in AnonymousIds, in \in { BarePayload, FullPayload } : tasteReward(id, in)
    \/ \E id \in AnonymousIds, a \in AlignmentScores \cup storedScores :
          tasteScoreCall(id, a)

SpecTaste == Init /\ [][NextTaste]_vars

---------------------------------------------------------------------------
(* mapPlatformToEnum on its own, and the rarity weight of the platform *)

mapPlatformCall(platform) ==
    /\ result' = [op |-> "mapPlatformToEnum", input |-> platform, error |-> NoError,
                  value |-> [ platformEnum |-> mapPlatformToEnum(platform),
                              rarityBonus |-> toDouble(rarityBonus([platform |-> platform])) ]]
    /\ UNCHANGED <<ledgerVars, rewardVars>>

\* The names of the platforms as the payloads may write them.
PlatformNames ==
    { <<"m", "i", "d", "j", "o", "u", "r", "n", "e", "y">>,
      <<"s", "u", "n", "o">>,
      <<"u", "d", "i", "o">>,
      <<"r", "u", "n", "w", "a", "y">>,
      <<"p", "i", "k", "a">>,
      <<"d", "a", "l", "l", "e">>,
      <<"f", "l", "u", "x">>,
      <<"l", "e", "o", "n", "a", "r", "d", "o">>,
      <<"s", "t", "a", "b", "l", "e", "-", "d", "i", "f", "f", "u", "s", "i", "o", "n">>,
      <<"h", "i", "g", "g", "s", "f", "i", "e", "l", "d">>,
      <<"c", "h", "a", "t", "g", "p", "t">>,
      <<"c", "l", "a", "u", "d", "e">> }

toUpperCase(s) ==
    [i \in 1 .. Len(s) |->
        IF \E k \in 1 .. Len(LowerCase) : LowerCase[k] = s[i]
        THEN UpperCase[CHOOSE k \in 1 .. Len(LowerCase) : LowerCase[k] = s[i]]
        ELSE s[i]]

\* A name in lower case, in upper case, with a capital at its head, with a
\* capital at its end, and with capitals at its even places.
caseVariants(name) ==
    LET upper == toUpperCase(name)
    IN  { name, upper,
          [i \in 1 .. Len(name) |-> IF i = 1 THEN upper[i] ELSE name[i]],
          [i \in 1 .. Len(name) |-> IF i = Len(name) THEN upper[i] ELSE name[i]],
          [i \in 1 .. Len(name) |-> IF i % 2 = 0 THEN upper[i] ELSE name[i]] }

\* Strings that are close to a name: a space before it or after it, its last
\* letter missing, a letter more.
nearMisses(name) ==
    { <<" ">> \o name, name \o <<" ">>, SubSeq(name, 1, Len(name) - 1),
      toUpperCase(name) \o <<"s">> }

\* The empty string, names of no platform, and the names every object knows.
OtherStrings ==
    { <<>>, <<"s", "o", "r", "a">>, <<"S", "o", "r", "a">>, <<"u", "n", "k", "n", "o", "w", "n">>, <<"U", "N", "K", "N", "O", "W", "N">>,
      <<"s", "t", "a", "b", "l", "e", "_", "d", "i", "f", "f", "u", "s", "i", "o", "n">>, <<"d", "a", "l", "l", "-", "e">>, <<"C", "o", "n", "s", "t", "r", "u", "c", "t", "o", "r">> }
    \cup { e[1] : e \in ObjectPrototype }

PlatformStrings ==
    UNION { caseVariants(name) \cup nearMisses(name) : name \in PlatformNames }
    \cup OtherStrings

\* Each string is mapped from the first state.
NextPlatform ==
    /\ result.op = "none"
    /\ \E platform \in PlatformStrings : mapPlatformCall(platform)

SpecPlatform == Init /\ [][NextPlatform]_vars

---------------------------------------------------------------------------
(* validateProcessInput *)

\* The body of the request is parsed JSON: a property is missing (None) or has a
\* value; the value of a list property is an array or something else; an entry
\* of an array is an object or null.
Array(items) == [array |-> items]

NotArray == [object |-> "{}"]

isArray(x) == x # None /\ "array" \in DOMAIN x[1]

NullEntry == [null |-> TRUE]

isNull(entry) == "null" \in DOMAIN entry

\* !x for a string property: missing or empty.  The platform is a text.
falsy(x) == x = None \/ x[1] = ""

falsyPlatform(x) == x = None \/ x[1] = <<>>

\* new Date(s).getTime() is a number: s is one of the timestamps tried that
\* Date parses.
ParsedTimestamps ==
    { "2024-01-15T10:30:00.000Z", "2024-01-15", "2024-01-15T10:32:00.000Z",
      "2024-01-15T10:45:00.500Z" }

isValidDate(s) == s \in ParsedTimestamps

TypeError == [threw |-> "TypeError"]

Valid == [valid |-> TRUE, error |-> <<>>]

Invalid(error) == [valid |-> FALSE, error |-> error]

\* Lines 79-88: the loop over the prompt lineage, from entry i (the index of the
\* code is i - 1).  Reading a property of null throws.
RECURSIVE validatePromptLineage(_, _)
validatePromptLineage(list, i) ==
    IF i > Len(list) THEN Valid
    ELSE IF isNull(list[i]) THEN TypeError
    ELSE IF falsy(list[i].id) \/ falsy(list[i].content)
            \/ falsy(list[i].timestamp) \/ falsy(list[i].mode)
    THEN Invalid(<<"Invalid prompt version at index ", i - 1,
                   ": missing required fields (id, content, timestamp, mode)">>)
    ELSE validatePromptLineage(list, i + 1)

\* Lines 91-100: the loop over the rejected outputs.
RECURSIVE validateRejectedOutputs(_, _)
validateRejectedOutputs(list, i) ==
    IF i > Len(list) THEN Valid
    ELSE IF isNull(list[i]) THEN TypeError
    ELSE IF falsy(list[i].id) \/ falsy(list[i].promptVersionId)
            \/ falsy(list[i].timestamp)
    THEN Invalid(<<"Invalid rejected output at index ", i - 1,
                   ": missing required fields (id, promptVersionId, timestamp)">>)
    ELSE validateRejectedOutputs(list, i + 1)

\* Lines 53-120.
validateProcessInput(input) ==
    IF falsyPlatform(input.platform)
    THEN Invalid(<<"Platform is required">>)
    ELSE IF falsy(input.sessionStartedAt)
    THEN Invalid(<<"Session start time is required">>)
    ELSE IF ~isValidDate(input.sessionStartedAt[1])
    THEN Invalid(<<"Invalid session start time format (expected ISO 8601)">>)
    ELSE IF ~isArray(input.promptLineage)
    THEN Invalid(<<"Prompt lineage must be an array">>)
    ELSE IF ~isArray(input.rejectedOutputs)
    THEN Invalid(<<"Rejected outputs must be an array">>)
    ELSE IF validatePromptLineage(input.promptLineage[1].array, 1) # Valid
    THEN validatePromptLineage(input.promptLineage[1].array, 1)
    ELSE IF validateRejectedOutputs(input.rejectedOutputs[1].array, 1) # Valid
    THEN validateRejectedOutputs(input.rejectedOutputs[1].array, 1)
    ELSE IF input.selectedOutput # None
            /\ (falsy(input.selectedOutput[1].id)
                \/ falsy(input.selectedOutput[1].promptVersionId)
                \/ falsy(input.selectedOutput[1].timestamp))
    THEN Invalid(<<"Invalid selected output: missing required fields (id, promptVersionId, timestamp)">>)
    ELSE IF input.consentForTrainingData = Some(TRUE) /\ falsy(input.consentTimestamp)
    THEN Invalid(<<"Consent timestamp required when consent is given">>)
    ELSE Valid

validateCall(input) ==
    LET returned == validateProcessInput(input)
    IN  /\ result' = [op |-> "validateProcessInput", input |-> input,
                      error |-> IF returned = TypeError THEN "TypeError" ELSE NoError,
                      value |-> returned]
        /\ UNCHANGED <<ledgerVars, rewardVars>>

\* The payloads tried: every property missing, malformed and well formed, and
\* lists whose first bad entry is not their first entry.
PromptVersion(id, content, timestamp, mode) ==
    [id |-> id, content |-> content, timestamp |-> timestamp, mode |-> mode]

GoodVersion == PromptVersion(Some("v1"), Some("a cat"), Some("2024-01-15"), Some("manual"))

RejectedOutput(id, promptVersionId, timestamp) ==
    [id |-> id, promptVersionId |-> promptVersionId, timestamp |-> timestamp]

GoodRejection == RejectedOutput(Some("r1"), Some("v1"), Some("2024-01-15"))

ValidatedPlatforms == { None, Some(<<>>), Some(<<"s", "o", "r", "a">>) }

ValidatedStartTimes ==
    { None, Some(""), Some("yesterday"), Some("2024-13-45"),
      Some("2024-01-15T10:30:00.000Z") }

ValidatedLineages ==
    { None, Some(NotArray), Some(Array(<<>>)), Some(Array(<<GoodVersion>>)),
      Some(Array(<<GoodVersion, PromptVersion(Some("v2"), Some(""), Some("2024-01-15"), Some("style")),
                   PromptVersion(None, Some("a dog"), Some("2024-01-15"), Some("style"))>>)),
      Some(Array(<<GoodVersion, GoodVersion,
                   PromptVersion(Some("v3"), Some("a dog"), Some("2024-01-15"), None)>>)),
      Some(Array(<<PromptVersion(Some("v1"), Some("a dog"), None, Some("expand"))>>)),
      Some(Array(<<GoodVersion, NullEntry>>)) }

ValidatedRejections ==
    { None, Some(NotArray), Some(Array(<<>>)), Some(Array(<<GoodRejection>>)),
      Some(Array(<<GoodRejection, RejectedOutput(Some("r2"), None, Some("2024-01-15")),
                   RejectedOutput(None, Some("v1"), Some("2024-01-15"))>>)),
      Some(Array(<<RejectedOutput(Some("r1"), Some("v1"), Some(""))>>)) }

ValidatedSelections ==
    { None, Some(RejectedOutput(Some("s1"), Some("v1"), Some("2024-01-15"))),
      Some(RejectedOutput(Some("s1"), Some("v1"), None)),
      Some(RejectedOutput(Some(""), Some("v1"), Some("2024-01-15"))) }

ValidatedConsents ==
    { <<None, None>>, <<Some(FALSE), None>>, <<Some(TRUE), None>>,
      <<Some(TRUE), Some("")>>, <<Some(TRUE), Some("2024-01-15")>> }

\* Each payload is validated from the first state: nothing stored is read.
NextValidate ==
    /\ result.op = "none"
    /\ \E platform \in ValidatedPlatforms, sessionStartedAt \in ValidatedStartTimes,
          promptLineage \in ValidatedLineages, rejectedOutputs \in ValidatedRejections,
          selectedOutput \in ValidatedSelections, consent \in ValidatedConsents :
          validateCall([ platform |-> platform, sessionStartedAt |-> sessionStartedAt,
                         promptLineage |-> promptLineage,
                         rejectedOutputs |-> rejectedOutputs,
                         selectedOutput |-> selectedOutput,
                         consentForTrainingData |-> consent[1],
                         consentTimestamp |-> consent[2] ])

SpecValidate == Init /\ [][NextValidate]_vars

---------------------------------------------------------------------------
(* The points of one contribution: lines 173-207 and 236-246 on their own *)

scoreContribution(tasteScore, in) ==
    LET contributor == [tasteScore |-> toDouble(tasteScore)]
    IN  /\ result' = [op |-> "pointsEarned",
                      input |-> [tasteScore |-> tasteScore, payload |-> in],
                      error |-> NoError,
                      value |-> [ basePoints |-> basePoints(in),
                                  qualityMultiplier |-> qualityMultiplier(contributor),
                                  rarityBonus |-> toDouble(rarityBonus(in)),
                                  pointsEarned |-> pointsEarned(contributor, in) ]]
        /\ UNCHANGED <<ledgerVars, rewardVars>>

SelectedOutputs ==
    { None,
      Some([likeReason |-> None, customFeedback |-> None]),
      Some([likeReason |-> Some("style"), customFeedback |-> None]),
      Some([likeReason |-> Some(""), customFeedback |-> Some("text")]),
      Some([likeReason |-> Some("style"), customFeedback |-> Some("text")]) }

SessionDurations ==
    { None, Some(0), Some(119), Some(120), Some(299), Some(300), Some(600),
      Some(899), Some(900) }

ExpertiseTagLists ==
    { None, Some(<<>>), Some(<<"art">>), Some(<<"music", "video", "music", "art">>) }

PointsPlatforms ==
    { <<"C", "h", "a", "t", "G", "P", "T">>,
      <<"s", "t", "a", "b", "l", "e", "-", "d", "i", "f", "f", "u", "s", "i", "o", "n">>,
      <<"r", "u", "n", "w", "a", "y">>,
      <<"s", "o", "r", "a">> }

PointsPayloads ==
    { [ platform |-> pf, promptLineage |-> entries(l), rejectedOutputs |-> entries(r),
        selectedOutput |-> so, sessionDuration |-> sd, expertiseTags |-> et,
        consentVersion |-> None, consentTimestamp |-> None ]
      : pf \in PointsPlatforms, l \in { 0, 5, 10, MaxEntries },
        r \in { 0, 2, 5, MaxEntries },
        so \in SelectedOutputs, sd \in SessionDurations, et \in ExpertiseTagLists }

\* The taste scores a double holds exactly: the default and the two ends.
PointsTasteScores == { Whole(0), Half, Whole(1) }

\* Each contribution is scored from the initial state: the points depend on
\* nothing stored.
NextPoints ==
    /\ result.op = "none"
    /\ \E tasteScore \in PointsTasteScores, in \in PointsPayloads :
          scoreContribution(tasteScore, in)

SpecPoints == Init /\ [][NextPoints]_vars

---------------------------------------------------------------------------
(* Two contributors given the same calls: each call made for the first is made
   next for the second *)

TwinA == "anon-1"

TwinB == "anon-2"

firstTurn == result.op = "none" \/ result.input.contributorId = TwinB

twinReward(in) ==
    /\ contributionsStored < MaxTwinContributions
    /\ IF firstTurn
       THEN computeReward(TwinA, in)
       ELSE /\ result.op = "calculateContributionReward"
            /\ in = result.input.payload
            /\ computeReward(TwinB, in)

twinTasteScore(alignmentScore) ==
    IF firstTurn
    THEN updateTasteScore(TwinA, alignmentScore)
    ELSE /\ result.op = "updateTasteScore"
         /\ alignmentScore = result.input.alignmentScore
         /\ storeTasteScore(TwinB, alignmentScore)

NextTwin ==
    \/ \E in \in RewardInputs : twinReward(in)
    \/ \E a \in AlignmentScores : twinTasteScore(a)

SpecTwin == Init /\ [][NextTwin]_vars

---------------------------------------------------------------------------
(* calculateContributionReward, step by step: each await is a point where
   another request runs *)

\* Mutant: an update that never lowers the totals that are stored.
applyUpdateKeepingTotals(rows, data) ==
    [i \in 1 .. Len(rows) |->
        IF rows[i].id = data.id
        THEN [rows[i] EXCEPT
                !.totalContributions = IF @ > data.totalContributions THEN @
                                       ELSE data.totalContributions,
                !.totalPoints = IF @ > data.totalPoints THEN @ ELSE data.totalPoints,
                !.currentTier = data.currentTier,
                !.expertiseTags = data.expertiseTags,
                !.platformStats = data.platformStats,
                !.consentVersion = data.consentVersion,
                !.consentTimestamp = data.consentTimestamp]
        ELSE rows[i]]

\* Mutant: an update that writes the totals and leaves the tier as it is.
applyUpdateWithoutTier(rows, data) ==
    [i \in 1 .. Len(rows) |->
        IF rows[i].id = data.id
        THEN [rows[i] EXCEPT
                !.totalContributions = data.totalContributions,
                !.totalPoints = data.totalPoints,
                !.expertiseTags = data.expertiseTags,
                !.platformStats = data.platformStats,
                !.consentVersion = data.consentVersion,
                !.consentTimestamp = data.consentTimestamp]
        ELSE rows[i]]

\* prisma.contributor.update({ where: { id }, data }): only the fields of data
\* are written, on the row as it is now.
applyUpdate(rows, data) ==
    [i \in 1 .. Len(rows) |->
        IF rows[i].id = data.id
        THEN [rows[i] EXCEPT
                !.totalContributions = data.totalContributions,
                !.totalPoints = data.totalPoints,
                !.currentTier = data.currentTier,
                !.expertiseTags = data.expertiseTags,
                !.platformStats = data.platformStats,
                !.consentVersion = data.consentVersion,
                !.consentTimestamp = data.consentTimestamp]
        ELSE rows[i]]

requestsUnderWay == Cardinality({ r \in Requests : inFlight[r] # Idle })

\* Lines 213-215: the contributor is read.
rewardFind(r, anonymousId, in) ==
    /\ inFlight[r] = Idle
    /\ contributionsStored + requestsUnderWay < MaxRaceContributions
    /\ inFlight' = [inFlight EXCEPT ![r] =
          [ stage |-> IF findContributor(contributorRows, anonymousId) = NoRow
                      THEN "create" ELSE "update",
            contributorId |-> anonymousId,
            input |-> in,
            contributor |-> findContributor(contributorRows, anonymousId) ]]
    /\ UNCHANGED <<ledgerVars, processDeclarations, contributorRows, completedTags,
                   tasteUpdates, rewardsReported, result>>

\* Mutant: a table that takes a second row of the same anonymousId.
uniqueNotEnforced(rows, anonymousId) == FALSE

\* anonymousId is the unique key that findUnique looks rows up by: a create of
\* an anonymousId that has a row violates it.
uniqueViolation(rows, anonymousId) == findContributor(rows, anonymousId) # NoRow

\* Lines 217-228: no row was read, one is created; anonymousId is unique, so the
\* create throws when another request created the row in between.
rewardCreate(r) ==
    /\ inFlight[r].stage = "create"
    /\ IF uniqueViolation(contributorRows, inFlight[r].contributorId)
       THEN /\ inFlight' = [inFlight EXCEPT ![r] = Idle]
            /\ result' = [op |-> "calculateContributionReward",
                          input |-> [contributorId |-> inFlight[r].contributorId,
                                     payload |-> inFlight[r].input],
                          error |-> "Unique constraint failed", value |-> NULL]
            /\ UNCHANGED <<ledgerVars, processDeclarations, contributorRows,
                           completedTags, tasteUpdates, rewardsReported>>
       ELSE /\ contributorRows' =
                  Append(contributorRows,
                         newContributor(contributorRows, inFlight[r].contributorId,
                                        inFlight[r].input))
            /\ inFlight' = [inFlight EXCEPT ![r] =
                  [@ EXCEPT !.stage = "update",
                            !.contributor =
                                newContributor(contributorRows,
                                               inFlight[r].contributorId,
                                               inFlight[r].input)]]
            /\ UNCHANGED <<ledgerVars, processDeclarations, completedTags, tasteUpdates,
                           rewardsReported, result>>

\* Lines 236-296: the reward is computed from the row that was read, the row is
\* updated and the reward returned.
rewardUpdate(r) ==
    /\ inFlight[r].stage = "update"
    /\ contributorRows' =
          applyUpdate(contributorRows,
                      updatedContributor(inFlight[r].contributor, inFlight[r].input))
    /\ result' = [op |-> "calculateContributionReward",
                  input |-> [contributorId |-> inFlight[r].contributorId,
                             payload |-> inFlight[r].input],
                  error |-> NoError,
                  value |-> contributorReward(inFlight[r].contributor,
                                              inFlight[r].input)]
    /\ completedTags' = completedTags
                          \cup tagsGiven(inFlight[r].contributorId, inFlight[r].input)
    /\ inFlight' = [inFlight EXCEPT ![r] = Idle]
    /\ rewardsReported' =
          reported(rewardsReported, inFlight[r].contributorId,
                   contributorReward(inFlight[r].contributor, inFlight[r].input))
    /\ UNCHANGED <<ledgerVars, processDeclarations, tasteUpdates>>

\* Contributions that differ in their expertise tags.
TagPayloads ==
    { BarePayload,
      [BarePayload EXCEPT !.expertiseTags = Some(<<"music">>)],
      [FullPayload EXCEPT !.expertiseTags = Some(<<"art", "video", "art">>)] }

NextRace ==
    \/ \E r \in Requests, id \in AnonymousIds, in \in TagPayloads :
          rewardFind(r, id, in)
    \/ \E r \in Requests : rewardCreate(r)
    \/ \E r \in Requests : rewardUpdate(r)

SpecRace == Init /\ [][NextRace]_vars

---------------------------------------------------------------------------
(* POST /api/process-declaration: each await is a point where another request
   runs *)

\* The body of a request: text that is no JSON, the JSON null, or a JSON object.
MalformedJson == [malformed |-> TRUE]

JsonNull == [json |-> NullEntry]

Json(input) == [json |-> input]

\* new Date(s).getTime() of the timestamps tried, in milliseconds counted from
\* 2024-01-15T00:00:00.000Z.
getTime(s) ==
    CASE s = "2024-01-15" -> 0
      [] s = "2024-01-15T10:30:00.000Z" -> 37800000
      [] s = "2024-01-15T10:32:00.000Z" -> 37920000
      [] s = "2024-01-15T10:45:00.500Z" -> 38700500

\* if (x) for an optional string, number and boolean of the body.
truthyString(x) == x # None /\ x[1] # ""

truthyNumber(x) == x # None /\ x[1] # 0

truthyBoolean(x) == x = Some(TRUE)

\* new Date(x) when x is there, else null.
dateOrNull(x) == IF truthyString(x) THEN Some(getTime(x[1])) ELSE None

\* Lines 68-73: the session duration, computed from the two timestamps when it
\* is not given and the end is.  Math.round is the whole part of x + 1/2.
derivedSessionDuration(input) ==
    IF ~truthyNumber(input.sessionDuration) /\ truthyString(input.sessionEndedAt)
    THEN Some((getTime(input.sessionEndedAt[1]) - getTime(input.sessionStartedAt[1])
               + 500) \div 1000)
    ELSE input.sessionDuration

\* The values of the platform enum: those of platformMap, and UNKNOWN.
isPlatformEnum(x) == x = "UNKNOWN" \/ \E e \in platformMap : e[2] = x

\* prisma.processDeclaration.create throws on a platform that is no value of
\* the enum and on a Date that is invalid.
createRefused(input) ==
    \/ ~isPlatformEnum(mapPlatformToEnum(input.platform[1]))
    \/ truthyString(input.sessionEndedAt) /\ ~isValidDate(input.sessionEndedAt[1])
    \/ truthyString(input.consentTimestamp) /\ ~isValidDate(input.consentTimestamp[1])

ProcessDeclarationId(n) == <<"p", ToString(n)>>

\* The data of prisma.processDeclaration.create (lines 76-92).
processDeclarationRow(rows, input) ==
    [ id |-> ProcessDeclarationId(Len(rows) + 1),
      platform |-> mapPlatformToEnum(input.platform[1]),
      sessionStartedAt |-> getTime(input.sessionStartedAt[1]),
      sessionEndedAt |-> dateOrNull(input.sessionEndedAt),
      sessionDuration |-> derivedSessionDuration(input),
      iterationCount |-> IF truthyNumber(input.iterationCount)
                         THEN input.iterationCount[1]
                         ELSE Len(input.promptLineage[1].array),
      promptLineage |-> input.promptLineage[1].array,
      rejectedOutputs |-> input.rejectedOutputs[1].array,
      selectedOutput |-> input.selectedOutput,
      consentForTrainingData |-> input.consentForTrainingData,
      consentTimestamp |-> dateOrNull(input.consentTimestamp),
      consentVersion |-> input.consentVersion,
      contributorId |-> input.contributorId,
      contributorExpertiseTags |-> IF input.expertiseTags = None THEN <<>>
                                   ELSE input.expertiseTags[1] ]

\* The input as calculateContributionReward reads it: the body itself.
rewardInput(input) ==
    [ platform |-> input.platform[1],
      promptLineage |-> input.promptLineage[1].array,
      rejectedOutputs |-> input.rejectedOutputs[1].array,
      selectedOutput |-> input.selectedOutput,
      sessionDuration |-> input.sessionDuration,
      expertiseTags |-> input.expertiseTags,
      consentVersion |-> input.consentVersion,
      consentTimestamp |-> dateOrNull(input.consentTimestamp) ]

\* Mutant: a reward for every submission that names a contributor.
wantsRewardWithoutConsent(input) == truthyString(input.contributorId)

\* Line 98: input.contributorId && input.consentForTrainingData
wantsReward(input) ==
    truthyString(input.contributorId) /\ truthyBoolean(input.consentForTrainingData)

\* The answers.
Created(id, reward) ==
    [ status |-> 201,
      body |-> [success |-> TRUE, id |-> Some(id), reward |-> reward, error |-> None] ]

Failure(status, error) ==
    [ status |-> status,
      body |-> [success |-> FALSE, id |-> None, reward |-> None, error |-> Some(error)] ]

ServerError == Failure(500, <<"Failed to create process declaration">>)

\* Mutant: the submission fails with the reward.
afterRewardErrorFails(declarationId) == ServerError

\* Lines 105-119: the error of the reward is logged and the answer is the one
\* of a submission with no reward.
afterRewardError(declarationId) == Created(declarationId, None)

\* Lines 43-92, up to the create: the answer of a request that stores nothing,
\* or None.
refusal(request) ==
    IF request = MalformedJson
    THEN Some(Failure(400, <<"Invalid JSON in request body">>))
    ELSE IF request = JsonNull THEN Some(ServerError)
    ELSE LET validation == validateProcessInput(request.json)
         IN  IF validation = TypeError THEN Some(ServerError)
             ELSE IF ~validation.valid THEN Some(Failure(400, validation.error))
             ELSE IF createRefused(request.json) THEN Some(ServerError)
             ELSE None

postResult(request, logged, response) ==
    [op |-> "POST", input |-> request, error |-> logged, value |-> response]

\* Lines 43-98: the body is parsed and validated and the ProcessDeclaration is
\* created; the request answers here unless a reward is to be computed.
postSubmit(r, request) ==
    /\ inFlight[r] = Idle
    /\ IF refusal(request) # None
       THEN /\ result' = postResult(request, NoError, refusal(request)[1])
            /\ UNCHANGED <<ledgerVars, rewardVars>>
       ELSE LET input == request.json
                row == processDeclarationRow(processDeclarations, input)
            IN  /\ Len(processDeclarations) < MaxSubmissions
                /\ processDeclarations' = Append(processDeclarations, row)
                /\ IF wantsReward(input)
                   THEN /\ inFlight' = [inFlight EXCEPT ![r] =
                              [ stage |-> "find",
                                contributorId |-> input.contributorId[1],
                                input |-> rewardInput(input),
                                contributor |-> NoRow,
                                declarationId |-> row.id,
                                request |-> request ]]
                        /\ UNCHANGED result
                   ELSE /\ result' = postResult(request, NoError, Created(row.id, None))
                        /\ UNCHANGED inFlight
                /\ UNCHANGED <<ledgerVars, contributorRows, completedTags, tasteUpdates,
                               rewardsReported>>

\* process-utils.ts 213-215: the contributor is read.
postFind(r) ==
    /\ inFlight[r].stage = "find"
    /\ inFlight' = [inFlight EXCEPT ![r] =
          [@ EXCEPT !.stage =
                        IF findContributor(contributorRows, inFlight[r].contributorId)
                             = NoRow
                        THEN "create" ELSE "update",
                    !.contributor =
                        findContributor(contributorRows, inFlight[r].contributorId)]]
    /\ UNCHANGED <<ledgerVars, processDeclarations, contributorRows, completedTags,
                   tasteUpdates, rewardsReported, result>>

\* process-utils.ts 217-228: the contributor is created; when the create throws,
\* the request answers.
postCreate(r) ==
    /\ inFlight[r].stage = "create"
    /\ IF uniqueViolation(contributorRows, inFlight[r].contributorId)
       THEN /\ inFlight' = [inFlight EXCEPT ![r] = Idle]
            /\ result' = postResult(inFlight[r].request, "Unique constraint failed",
                                    afterRewardError(inFlight[r].declarationId))
            /\ UNCHANGED <<ledgerVars, processDeclarations, contributorRows,
                           completedTags, tasteUpdates, rewardsReported>>
       ELSE /\ contributorRows' =
                  Append(contributorRows,
                         newContributor(contributorRows, inFlight[r].contributorId,
                                        inFlight[r].input))
            /\ inFlight' = [inFlight EXCEPT ![r] =
                  [@ EXCEPT !.stage = "update",
                            !.contributor =
                                newContributor(contributorRows,
                                               inFlight[r].contributorId,
                                               inFlight[r].input)]]
            /\ UNCHANGED <<ledgerVars, processDeclarations, completedTags, tasteUpdates,
                           rewardsReported, result>>

\* process-utils.ts 236-296 and route.ts 111-119: the contributor is updated
\* and the request answers with the reward.
postUpdate(r) ==
    /\ inFlight[r].stage = "update"
    /\ contributorRows' =
          applyUpdate(contributorRows,
                      updatedContributor(inFlight[r].contributor, inFlight[r].input))
    /\ result' = postResult(inFlight[r].request, NoError,
                            Created(inFlight[r].declarationId,
                                    Some(contributorReward(inFlight[r].contributor,
                                                           inFlight[r].input))))
    /\ completedTags' = completedTags
                          \cup tagsGiven(inFlight[r].contributorId, inFlight[r].input)
    /\ rewardsReported' =
          reported(rewardsReported, inFlight[r].contributorId,
                   contributorReward(inFlight[r].contributor, inFlight[r].input))
    /\ inFlight' = [inFlight EXCEPT ![r] = Idle]
    /\ UNCHANGED <<ledgerVars, processDeclarations, tasteUpdates>>

\* The bodies tried: one that is accepted and rewarded, and that body with one
\* property changed.
BaseBody ==
    [ platform |-> Some(<<"C", "h", "a", "t", "G", "P", "T">>),
      sessionStartedAt |-> Some("2024-01-15T10:30:00.000Z"),
      sessionEndedAt |-> None,
      sessionDuration |-> None,
      iterationCount |-> None,
      promptLineage |-> Some(Array(<<GoodVersion>>)),
      rejectedOutputs |-> Some(Array(<<>>)),
      selectedOutput |-> None,
      consentForTrainingData |-> Some(TRUE),
      consentTimestamp |-> Some("2024-01-15"),
      consentVersion |-> Some("1.0"),
      contributorId |-> Some("anon-1"),
      expertiseTags |-> None ]

PostRequests ==
    { MalformedJson, JsonNull, Json(BaseBody),
      Json([BaseBody EXCEPT !.contributorId = Some("anon-2"),
                            !.platform = Some(<<"s", "o", "r", "a">>)]),
      Json([BaseBody EXCEPT !.contributorId = None]),
      Json([BaseBody EXCEPT !.contributorId = Some("")]),
      Json([BaseBody EXCEPT !.consentForTrainingData = Some(FALSE),
                            !.consentTimestamp = None]),
      Json([BaseBody EXCEPT !.sessionEndedAt = Some("2024-01-15T10:45:00.500Z")]),
      Json([BaseBody EXCEPT !.sessionEndedAt = Some("2024-01-15T10:45:00.500Z"),
                            !.sessionDuration = Some(900)]),
      Json([BaseBody EXCEPT !.sessionEndedAt = Some("2024-01-15T10:32:00.000Z"),
                            !.sessionDuration = Some(0),
                            !.contributorId = None]),
      Json([BaseBody EXCEPT !.sessionEndedAt = Some("later")]),
      Json([BaseBody EXCEPT !.platform = None]),
      Json([BaseBody EXCEPT !.platform = Some(<<"c", "o", "n", "s", "t", "r", "u", "c", "t", "o", "r">>)]),
      Json([BaseBody EXCEPT !.consentTimestamp = None]),
      Json([BaseBody EXCEPT !.promptLineage = Some(Array(<<GoodVersion, NullEntry>>))]),
      Json([BaseBody EXCEPT !.rejectedOutputs = None]) }

NextPost ==
    \/ \E r \in Requests, request \in PostRequests : postSubmit(r, request)
    \/ \E r \in Requests : postFind(r)
    \/ \E r \in Requests : postCreate(r)
    \/ \E r \in Requests : postUpdate(r)

SpecPost == Init /\ [][NextPost]_vars

---------------------------------------------------------------------------

(* The ledger with the works varied, and with the revisions varied *)

NextWorks ==
    \/ \E in \in WorkInputs : createWork(in)
    \/ \E in \in FewRevisionInputs : createRevision(in)
    \/ \E id \in WorkIds : getWork(id)
    \/ \E id \in WorkIds : exportWorkAsJson(id)
    \/ Tick

SpecWorks == Init /\ [][NextWorks]_vars

\* The works varied, read and exported, by the action and through the route.
NextExport ==
    \/ \E in \in WorkInputs : createWork(in)
    \/ \E in \in FewRevisionInputs : createRevision(in)
    \/ \E id \in WorkIds : getWork(id)
    \/ \E id \in WorkIds : exportWorkAsJson(id)
    \/ \E id \in WorkIds : GET(id)

SpecExport == Init /\ [][NextExport]_vars

NextLedger ==
    \/ \E in \in FewWorkInputs : createWork(in)
    \/ \E in \in RevisionInputs : createRevision(in)
    \/ \E id \in WorkIds : getWork(id)
    \/ \E id \in WorkIds : exportWorkAsJson(id)
    \/ Tick

SpecLedger == Init /\ [][NextLedger]_vars

---------------------------------------------------------------------------
(* Properties of the declaration ledger *)

\* A text that is missing, or holds white space only.
MissingOrBlank(x) == x = NULL \/ \A i \in 1 .. Len(x) : x[i] = SP

\* t is x without the white space at its two ends.
IsTrimmed(t, x) ==
    \E i \in 1 .. Len(x), j \in 1 .. Len(x) :
        /\ i <= j
        /\ x[i] # SP /\ x[j] # SP
        /\ \A k \in 1 .. Len(x) : (k < i \/ k > j) => x[k] = SP
        /\ t = SubSeq(x, i, j)

lastRevision == revisions[Len(revisions)]

createRevisionSucceeded == result.op = "createRevision" /\ result.error = NoError

\* C1: no step changes the intent, tools, aiUsed or contributors of a Declaration
\* that exists: they stay the values createWork wrote, whatever createRevision
\* calls (successful or failing) follow.
DeclarationNeverAltered ==
    [][\A i \in 1 .. Len(declarations) :
          /\ Len(declarations') >= i
          /\ declarations'[i].id = declarations[i].id
          /\ declarations'[i].intent = declarations[i].intent
          /\ declarations'[i].tools = declarations[i].tools
          /\ declarations'[i].aiUsed = declarations[i].aiUsed
          /\ declarations'[i].contributors = declarations[i].contributors]_vars

\* A revision that overrides every field of its Declaration with other values has
\* just been stored, and a failing createRevision is possible too.
RevisedDeclarationWitness ==
    /\ createRevisionSucceeded
    /\ \E i \in 1 .. Len(declarations) :
          /\ lastRevision.declarationId = declarations[i].id
          /\ lastRevision.intent \notin { NULL, declarations[i].intent }
          /\ lastRevision.tools \notin { NULL, declarations[i].tools }
          /\ lastRevision.contributors \notin { NULL, declarations[i].contributors }
          /\ lastRevision.aiUsed \notin { NullBool, Bool(declarations[i].aiUsed) }

\* The number of files of nonzero size in a list of uploaded files.
NonEmptyCount(files) == Cardinality({ i \in 1 .. Len(files) : Len(files[i].bytes) # 0 })

\* C2: in every state each Work has exactly one Declaration, and that Declaration
\* has as many AudioReferences as the createWork call had files of nonzero size;
\* no Declaration or AudioReference exists without its owner.
WorkHasDeclarationAndAudioRefs ==
    /\ Len(uploaded) = Len(works)
    /\ \A i \in 1 .. Len(works) :
          /\ Cardinality({ j \in 1 .. Len(declarations) :
                             declarations[j].workId = works[i].id }) = 1
          /\ \A j \in 1 .. Len(declarations) :
                declarations[j].workId = works[i].id =>
                   Cardinality({ k \in 1 .. Len(audioRefs) :
                                   audioRefs[k].declarationId = declarations[j].id })
                     = NonEmptyCount(uploaded[i])
    /\ \A j \in 1 .. Len(declarations) :
          \E i \in 1 .. Len(works) : declarations[j].workId = works[i].id
    /\ \A k \in 1 .. Len(audioRefs) :
          \E j \in 1 .. Len(declarations) :
             audioRefs[k].declarationId = declarations[j].id

\* Two Works exist, one created from three files of which one was empty.
WorkWithAudioWitness ==
    /\ Len(works) = 2
    /\ \E i \in 1 .. Len(works) :
          /\ Len(uploaded[i]) = 3
          /\ NonEmptyCount(uploaded[i]) = 2
          /\ Len(rowsOf(audioRefs, declarationOf(works[i].id).id)) = 2

\* C3: a createWork whose title, intent or tools is missing or blank returns an
\* error and leaves every table as it was.
createWorkRejectsBlank ==
    [][\A in \in WorkInputs :
          (/\ createWork(in)
           /\ (MissingOrBlank(in.title) \/ MissingOrBlank(in.intent)
                 \/ MissingOrBlank(in.tools)))
          => /\ result'.op = "createWork"
             /\ result'.error # NoError
             /\ UNCHANGED <<works, declarations, audioRefs, revisions>>]_vars

\* A createWork with no intent, blank tools and a file to hash was refused after
\* a Work had been created.
createWorkRefusedWitness ==
    /\ result.op = "createWork"
    /\ result.error = "Intent statement is required"
    /\ MissingOrBlank(result.input.tools)
    /\ result.input.audioFiles # <<>>
    /\ Len(works) = 1

ValidationErrors == { "Declaration ID is required", "Change note is required" }

NoSuchDeclaration(id) == \A i \in 1 .. Len(declarations) : declarations[i].id # id

\* C4: createRevision fails with a validation error when declarationId is missing
\* or changeNote is blank (also when no Declaration matches), with not-found when
\* the form is valid and no Declaration matches; a failing call changes no table.
createRevisionFailures ==
    [][\A in \in RevisionInputs :
          createRevision(in) =>
             /\ (in.declarationId \in { NULL, <<>> } \/ MissingOrBlank(in.changeNote))
                   => result'.error \in ValidationErrors
             /\ (/\ in.declarationId \notin { NULL, <<>> }
                 /\ ~MissingOrBlank(in.changeNote)
                 /\ NoSuchDeclaration(in.declarationId))
                   => result'.error = "Declaration not found"
             /\ result'.error # NoError
                   => UNCHANGED <<works, declarations, audioRefs, revisions>>]_vars

\* A createRevision naming no Declaration, with a blank change note, failed while
\* Declarations and Revisions existed.
createRevisionRefusedWitness ==
    /\ result.op = "createRevision"
    /\ result.error = "Change note is required"
    /\ NoSuchDeclaration(result.input.declarationId)
    /\ Len(declarations) > 0
    /\ Len(revisions) > 0

\* C5: a successful createRevision adds one Revision, of the named Declaration, and
\* leaves every other row of every table as it was; no step removes or edits a
\* Revision, so the Revisions of a Declaration never get fewer.
RevisionsAppendOnly ==
    [][/\ Len(revisions') \in { Len(revisions), Len(revisions) + 1 }
       /\ \A i \in 1 .. Len(revisions) : revisions'[i] = revisions[i]
       /\ \A d \in DeclarationIds :
             Len(rowsOf(revisions', d)) >= Len(rowsOf(revisions, d))
       /\ \A in \in RevisionInputs :
             (createRevision(in) /\ result'.error = NoError)
             => /\ Len(revisions') = Len(revisions) + 1
                /\ revisions'[Len(revisions')].declarationId = in.declarationId
                /\ Len(rowsOf(revisions', in.declarationId))
                     = Len(rowsOf(revisions, in.declarationId)) + 1
                /\ UNCHANGED <<works, declarations, audioRefs>>]_vars

\* A second Revision was stored, for another Declaration than the first, while
\* AudioReferences existed.
SecondRevisionWitness ==
    /\ createRevisionSucceeded
    /\ Len(revisions) = 2
    /\ revisions[1].declarationId # revisions[2].declarationId
    /\ Len(audioRefs) > 0

OptionalTexts == { "intent", "tools", "contributors" }

\* The identifiers of a list of rows, in the order of the list.
idsOf(rows) == [i \in 1 .. Len(rows) |-> rows[i].id]

readSucceeded == result.op \in { "getWork", "export" } /\ result.value # NoRow

\* The Work a successful read returned.
returnedWorkId ==
    IF result.op = "getWork" THEN result.value.id ELSE result.value.work.id

\* C6: the Revisions that getWork and export return are the Revisions of the
\* Declaration in the order the createRevision calls completed, oldest first.
RevisionsReturnedInCallOrder ==
    readSucceeded =>
       idsOf(result.value.revisions)
          = idsOf(rowsOf(revisions, declarationOf(returnedWorkId).id))

\* C7: in the Revision a createRevision stored, an optional text is null exactly
\* when the input was omitted or is empty once trimmed, and is the trimmed input
\* otherwise; aiUsed is true for 'true', false for 'false', null for anything else.
RevisionOverridesNormalised ==
    createRevisionSucceeded =>
       /\ \A f \in OptionalTexts :
             /\ lastRevision[f] = NULL <=> MissingOrBlank(result.input[f])
             /\ ~MissingOrBlank(result.input[f])
                   => IsTrimmed(lastRevision[f], result.input[f])
       /\ result.input.aiUsed = TrueText => lastRevision.aiUsed = Bool(TRUE)
       /\ result.input.aiUsed = FalseText => lastRevision.aiUsed = Bool(FALSE)
       /\ result.input.aiUsed \notin { TrueText, FalseText }
             => lastRevision.aiUsed = NullBool

\* A Revision was stored from a form with every override set, padded with white
\* space, one of them with white space inside.
OverridesStoredWitness ==
    /\ createRevisionSucceeded
    /\ result.input.intent = <<"b", SP>>
    /\ lastRevision.intent = <<"b">>
    /\ lastRevision.contributors = <<"a", SP, "b">>
    /\ lastRevision.aiUsed = Bool(FALSE)

\* C8 as stated: an omitted optional field is stored as null, and a field given as
\* the empty string is stored as something else, so that the two can be told apart.
OmittedDistinctFromEmpty ==
    createRevisionSucceeded =>
       \A f \in OptionalTexts :
          /\ result.input[f] = NULL => lastRevision[f] = NULL
          /\ result.input[f] = <<>> => lastRevision[f] # NULL

\* C8 amended: an omitted optional field is stored as null, and so is a field given
\* as the empty string: the two forms store the same Revision, and no Revision
\* holds an empty text as an override.
OmittedSameAsEmpty ==
    /\ createRevisionSucceeded =>
          \A f \in OptionalTexts :
             result.input[f] \in { NULL, <<>> } => lastRevision[f] = NULL
    /\ \A i \in 1 .. Len(revisions) :
          \A f \in OptionalTexts : revisions[i][f] # <<>>

\* A Revision was stored from a form whose intent was the empty string, after a
\* Revision that set the intent.
EmptyOverrideWitness ==
    /\ createRevisionSucceeded
    /\ result.input.intent = <<>>
    /\ lastRevision.intent = NULL
    /\ Len(revisions) = 2
    /\ revisions[1].intent # NULL

---------------------------------------------------------------------------
(* Properties of the reward engine *)

\* C9: calculateTier gives explorer below 100 points, curator from 100 to 499,
\* tastemaker from 500 to 1999 and oracle from 2000 on.
TierBoundaries ==
    result.op = "calculateTier" =>
       /\ result.input < 100 => result.value = "explorer"
       /\ (result.input >= 100 /\ result.input <= 499) => result.value = "curator"
       /\ (result.input >= 500 /\ result.input <= 1999) => result.value = "tastemaker"
       /\ result.input >= 2000 => result.value = "oracle"
       /\ result.input = 99 => result.value = "explorer"
       /\ result.input = 100 => result.value = "curator"
       /\ result.input = 499 => result.value = "curator"
       /\ result.input = 500 => result.value = "tastemaker"
       /\ result.input = 1999 => result.value = "tastemaker"
       /\ result.input = 2000 => result.value = "oracle"

\* calculateTier was applied to the first total of the highest tier.
OracleBoundaryWitness ==
    /\ result.op = "calculateTier"
    /\ result.input = 2000
    /\ result.value = "oracle"

\* The place of a stored tier in explorer < curator < tastemaker < oracle.
TierRank(tier) ==
    CASE tier = "EXPLORER" -> 0
      [] tier = "CURATOR" -> 1
      [] tier = "TASTEMAKER" -> 2
      [] tier = "ORACLE" -> 3

\* C10: over reward computations and taste-score updates that run one after
\* another, no step lowers the stored tier or the totalPoints of a Contributor.
TierNeverLowers ==
    [][\A i \in 1 .. Len(contributorRows) :
          /\ Len(contributorRows') >= i
          /\ contributorRows'[i].anonymousId = contributorRows[i].anonymousId
          /\ TierRank(contributorRows'[i].currentTier)
               >= TierRank(contributorRows[i].currentTier)
          /\ contributorRows'[i].totalPoints >= contributorRows[i].totalPoints]_vars

\* A reward computation moved a contributor, whose taste score had been updated,
\* from curator to tastemaker.
TierRaisedWitness ==
    /\ result.op = "calculateContributionReward"
    /\ result.value.tierChange = Some([from |-> "curator", to |-> "tastemaker"])
    /\ \E i \in 1 .. Len(contributorRows) :
          /\ contributorRows[i].anonymousId = result.input.contributorId
          /\ contributorRows[i].currentTier = "TASTEMAKER"
          /\ contributorRows[i].tasteScore # toDouble(Half)
          /\ contributorRows[i].totalPoints >= 500

\* The tags a row stores, as a set.
tagSet(row) == { row.expertiseTags[i] : i \in 1 .. Len(row.expertiseTags) }

\* The tags stored for an anonymous id (none when it has no row).
storedTags(rows, anonymousId) ==
    UNION { tagSet(rows[i]) : i \in { j \in 1 .. Len(rows) :
                                        rows[j].anonymousId = anonymousId } }

\* C11: no step takes a tag away from the tags stored for a Contributor, and the
\* stored tags hold every tag of every completed contribution, also when the
\* read and update steps of two reward computations interleave.
TagsNeverShrink ==
    [][/\ \A i \in 1 .. Len(contributorRows) :
             tagSet(contributorRows[i]) \subseteq tagSet(contributorRows'[i])
       /\ \A given \in completedTags' :
             given[2] \in storedTags(contributorRows', given[1])]_vars

\* What a Contributor row holds besides its identifiers (NoRow when there is none).
contributorState(rows, anonymousId) ==
    LET c == findContributor(rows, anonymousId)
    IN  IF c = NoRow THEN NoRow
        ELSE [ tasteScore |-> c.tasteScore, totalPoints |-> c.totalPoints,
               currentTier |-> c.currentTier, expertiseTags |-> c.expertiseTags,
               platformStats |-> c.platformStats,
               totalContributions |-> c.totalContributions ]

\* C12: two contributors that start from identical state and are given identical
\* payloads get identical rewards (pointsEarned, newTotal, tierChange,
\* qualityMultiplier, rarityBonus) and are left in identical state, whatever
\* their identifiers.
RewardDeterministic ==
    [][(result'.op # "none" /\ result'.input.contributorId = TwinB)
          => /\ result'.op = result.op
             /\ result'.value = result.value
             /\ contributorState(contributorRows', TwinA)
                  = contributorState(contributorRows', TwinB)]_vars

\* The second contributor was given, like the first, a reward computed with taste
\* score 1 that moved it from explorer to curator.
TwinRewardWitness ==
    /\ result.op = "calculateContributionReward"
    /\ result.input.contributorId = TwinB
    /\ result.value.qualityMultiplier = toDouble(Frac(3, 2))
    /\ result.value.tierChange = Some([from |-> "explorer", to |-> "curator"])
    /\ contributorState(contributorRows, TwinB).totalContributions = 2

\* Sum, product and rounding (a half going up) of real numbers that are fractions.
FracAdd(x, y) == Frac(x[1] * y[2] + y[1] * x[2], x[2] * y[2])

FracMul(x, y) == Frac(x[1] * y[1], x[2] * y[2])

Round(x) == (2 * x[1] + x[2]) \div (2 * x[2])

\* The base points as the specification gives them.
specBasePoints(in) ==
    LET lineage == Len(in.promptLineage)
        rejections == Len(in.rejectedOutputs)
        tags == IF in.expertiseTags = None THEN 0 ELSE Len(in.expertiseTags[1])
        has(x) == x # None /\ x[1] # ""
    IN  10 + Min(2 * lineage, 20) + Min(3 * rejections, 30)
        + (IF in.selectedOutput = None THEN 0
           ELSE 10 + (IF has(in.selectedOutput[1].likeReason) THEN 5 ELSE 0)
                   + (IF has(in.selectedOutput[1].customFeedback) THEN 10 ELSE 0))
        + (IF in.sessionDuration = None THEN 0
           ELSE IF in.sessionDuration[1] >= 900 THEN 10
           ELSE IF in.sessionDuration[1] >= 300 THEN 5
           ELSE IF in.sessionDuration[1] >= 120 THEN 2
           ELSE 0)
        + Min(2 * tags, 6)

\* C13: pointsEarned is basePoints * qualityMultiplier * rarityBonus rounded to
\* the nearest integer, with the base points of the specification and
\* qualityMultiplier = 0.5 + tasteScore; the example (lineage 5, rejections 2,
\* both reasons, 600 s, no tags, taste score 0.5, stable-diffusion) gives 56.
PointsEarnedFormula ==
    result.op = "pointsEarned" =>
       /\ result.value.basePoints = specBasePoints(result.input.payload)
       /\ result.value.pointsEarned
            = Round(FracMul(FracMul(Whole(specBasePoints(result.input.payload)),
                                    FracAdd(Half, result.input.tasteScore)),
                            rarityBonus(result.input.payload)))
       /\ (result.input.payload = [ExamplePayload EXCEPT !.consentVersion = None,
                                                         !.consentTimestamp = None]
             /\ result.input.tasteScore = Half)
            => result.value.pointsEarned = 56

\* The totals and the tier of an anonymous id before its first contribution
\* and after it.
totalsOf(rows, anonymousId) ==
    LET c == findContributor(rows, anonymousId)
    IN  IF c = NoRow
        THEN [totalPoints |-> 0, totalContributions |-> 0, tier |-> "explorer"]
        ELSE [totalPoints |-> c.totalPoints,
              totalContributions |-> c.totalContributions,
              tier |-> tierToLowerCase(c.currentTier)]

\* C14: a reward computation that runs alone returns newTotal = the totalPoints
\* before the call + pointsEarned, stores newTotal as totalPoints, adds 1 to
\* totalContributions, and reports tierChange exactly when calculateTier(newTotal)
\* is not the tier stored before, with from the tier before and to the new tier.
RewardTotals ==
    [][result'.op = "calculateContributionReward" =>
             LET id == result'.input.contributorId
                 before == totalsOf(contributorRows, id)
                 after == totalsOf(contributorRows', id)
                 reward == result'.value
             IN  /\ reward.newTotal = before.totalPoints + reward.pointsEarned
                 /\ after.totalPoints = reward.newTotal
                 /\ after.totalContributions = before.totalContributions + 1
                 /\ (reward.tierChange # None)
                       <=> (calculateTier(reward.newTotal) # before.tier)
                 /\ reward.tierChange # None =>
                       reward.tierChange
                         = Some([from |-> before.tier,
                                 to |-> calculateTier(reward.newTotal)])]_vars

\* A reward was computed for a contributor that had points already and stayed in
\* its tier, which is not the first one.
SameTierWitness ==
    /\ result.op = "calculateContributionReward"
    /\ result.value.tierChange = None
    /\ result.value.newTotal > result.value.pointsEarned
    /\ calculateTier(result.value.newTotal) = "curator"
    /\ totalsOf(contributorRows, result.input.contributorId).totalContributions = 3

\* C15: a reward computation for an anonymous id that has no Contributor creates
\* the Contributor with taste score 0.5, tier explorer, 0 points and 0
\* contributions before it scores: the contribution is scored with
\* qualityMultiplier 1.0 and leaves the Contributor with totalContributions = 1
\* and totalPoints = pointsEarned.
FirstRewardFromDefaults ==
    [][(/\ result'.op = "calculateContributionReward"
        /\ findContributor(contributorRows, result'.input.contributorId) = NoRow)
         => LET created == findContributor(contributorRows', result'.input.contributorId)
                reward == result'.value
            IN  /\ created # NoRow
                /\ Len(contributorRows') = Len(contributorRows) + 1
                /\ created.tasteScore = toDouble(Half)
                /\ reward.qualityMultiplier = toDouble(Whole(1))
                /\ reward.newTotal = reward.pointsEarned
                /\ created.totalPoints = reward.pointsEarned
                /\ created.totalContributions = 1
                /\ reward.tierChange # None => reward.tierChange[1].from = "explorer"
                /\ reward.tierChange = None => calculateTier(reward.newTotal) = "explorer"]_vars

\* The second contributor of the table was created by its first reward, which
\* took it from explorer to curator.
SecondContributorCreatedWitness ==
    /\ result.op = "calculateContributionReward"
    /\ Len(contributorRows) = 2
    /\ contributorRows[2].anonymousId = result.input.contributorId
    /\ contributorRows[2].totalContributions = 1
    /\ contributorRows[2].totalPoints = result.value.pointsEarned
    /\ result.value.qualityMultiplier = toDouble(Whole(1))
    /\ result.value.tierChange = Some([from |-> "explorer", to |-> "curator"])

\* The double nearest to the real number 0.8 * s + 0.2 * a = (4 * s + a) / 5, for
\* s and a that are not negative.
exactAverage(s, a) ==
    LET e == IF s.e <= a.e THEN s.e ELSE a.e
    IN  nearestQuotient(FALSE,
                        bigAdd(bigTimes(bigShl(s.m, s.e - e), 4, 0), bigShl(a.m, a.e - e)),
                        e, 5)

inUnitInterval(x) == doubleLeq(Zero, x) /\ doubleLeq(x, toDouble(Whole(1)))

\* C16: for a contributor with score s and an alignmentScore a in [0,1],
\* updateTasteScore stores and returns clamp01(0.8 * s + 0.2 * a) (here: the
\* double nearest to that number): the score moves by 20% of the gap toward a,
\* it is unchanged when a = s, and no other field of any Contributor changes.
TasteScoreMovesFifth ==
    [][(/\ result'.op = "updateTasteScore"
        /\ findContributor(contributorRows, result'.input.contributorId) # NoRow
        /\ inUnitInterval(result'.input.alignmentScore))
         => LET before == findContributor(contributorRows, result'.input.contributorId)
                after == findContributor(contributorRows', result'.input.contributorId)
                a == result'.input.alignmentScore
            IN  /\ result'.value = after.tasteScore
                /\ after.tasteScore = exactAverage(before.tasteScore, a)
                /\ a = before.tasteScore => after.tasteScore = before.tasteScore
                /\ contributorRows'
                     = writeContributor(contributorRows,
                                        [before EXCEPT !.tasteScore = after.tasteScore])]_vars

\* C17: updateTasteScore for an anonymous id that has no Contributor returns 0.5
\* and creates no Contributor: the table of Contributors and every other table
\* are as they were.
UnknownContributorUntouched ==
    [][(/\ result'.op = "updateTasteScore"
        /\ findContributor(contributorRows, result'.input.contributorId) = NoRow)
         => /\ result'.value = toDouble(Half)
            /\ result'.error = NoError
            /\ contributorRows' = contributorRows
            /\ UNCHANGED ledgerVars]_vars

\* updateTasteScore was called for an id that has no Contributor while another
\* id has one, whose score had been moved.
UnknownContributorWitness ==
    /\ result.op = "updateTasteScore"
    /\ findContributor(contributorRows, result.input.contributorId) = NoRow
    /\ result.value = toDouble(Half)
    /\ Len(contributorRows) = 1
    /\ contributorRows[1].tasteScore # toDouble(Half)
    /\ result.input.alignmentScore = toDouble(Whole(1))

\* C18: in every state reached by reward computations and updateTasteScore calls,
\* whatever the alignmentScore (numbers outside [0,1] too), the tasteScore of
\* every Contributor lies in [0,1], and the qualityMultiplier a reward computation
\* returns lies in [0.5, 1.5].
TasteScoreInUnitInterval ==
    /\ \A i \in 1 .. Len(contributorRows) : inUnitInterval(contributorRows[i].tasteScore)
    /\ result.op = "updateTasteScore" => inUnitInterval(result.value)
    /\ result.op = "calculateContributionReward" =>
          /\ doubleLeq(toDouble(Half), result.value.qualityMultiplier)
          /\ doubleLeq(result.value.qualityMultiplier, toDouble(Frac(3, 2)))

\* A reward was computed with qualityMultiplier 1.5 for a contributor whose score
\* an alignmentScore above 1 had taken to 1, while the score of the other
\* contributor had been taken to 0 by a negative alignmentScore.
ClampedScoresWitness ==
    /\ result.op = "calculateContributionReward"
    /\ result.value.qualityMultiplier = toDouble(Frac(3, 2))
    /\ Len(contributorRows) = 2
    /\ { contributorRows[1].tasteScore, contributorRows[2].tasteScore }
          = { Zero, toDouble(Whole(1)) }

\* The enumeration of the specification: the name of each platform and the
\* platform it stands for.
KnownPlatforms ==
    { <<<<"m", "i", "d", "j", "o", "u", "r", "n", "e", "y">>, "MIDJOURNEY">>,
      <<<<"s", "u", "n", "o">>, "SUNO">>,
      <<<<"u", "d", "i", "o">>, "UDIO">>,
      <<<<"r", "u", "n", "w", "a", "y">>, "RUNWAY">>,
      <<<<"p", "i", "k", "a">>, "PIKA">>,
      <<<<"d", "a", "l", "l", "e">>, "DALLE">>,
      <<<<"f", "l", "u", "x">>, "FLUX">>,
      <<<<"l", "e", "o", "n", "a", "r", "d", "o">>, "LEONARDO">>,
      <<<<"s", "t", "a", "b", "l", "e", "-", "d", "i", "f", "f", "u", "s", "i", "o", "n">>, "STABLE_DIFFUSION">>,
      <<<<"h", "i", "g", "g", "s", "f", "i", "e", "l", "d">>, "HIGGSFIELD">>,
      <<<<"c", "h", "a", "t", "g", "p", "t">>, "CHATGPT">>,
      <<<<"c", "l", "a", "u", "d", "e">>, "CLAUDE">> }

\* Two strings that are equal when the case of their letters is ignored.
equalIgnoringCase(x, y) ==
    /\ Len(x) = Len(y)
    /\ \A i \in 1 .. Len(x) :
          \/ x[i] = y[i]
          \/ \E k \in 1 .. Len(LowerCase) :
                {x[i], y[i]} = {LowerCase[k], UpperCase[k]}

\* C19: mapPlatform is total and ignores case: a string equal, ignoring case, to
\* one of the twelve platform names maps to that platform, every other string
\* maps to unknown without an error, and a reward for a platform that maps to
\* unknown uses rarity bonus 1.0.
PlatformMappingTotal ==
    result.op = "mapPlatformToEnum" =>
       /\ result.error = NoError
       /\ \A known \in KnownPlatforms :
             equalIgnoringCase(result.input, known[1])
                => result.value.platformEnum = known[2]
       /\ (\A known \in KnownPlatforms : ~equalIgnoringCase(result.input, known[1]))
             => /\ result.value.platformEnum = "UNKNOWN"
                /\ result.value.rarityBonus = toDouble(Whole(1))

\* A property that is there and is not empty; an entry that has each of the
\* properties named.
has(x) == x # None /\ x[1] # ""

entryHas(entry, names) == ~isNull(entry) /\ \A name \in names : has(entry[name])

badEntries(list, names) ==
    IF isArray(list)
    THEN { i \in 1 .. Len(list[1].array) : ~entryHas(list[1].array[i], names) }
    ELSE {}

smallest(indices) == CHOOSE i \in indices : \A j \in indices : i <= j

VersionFields == { "id", "content", "timestamp", "mode" }

OutputFields == { "id", "promptVersionId", "timestamp" }

\* The checks of the specification in their order, and for each check that fails
\* the reports that name it (entries are counted from 0).
checksPassed(input) ==
    << input.platform # None /\ input.platform[1] # <<>>,
       has(input.sessionStartedAt) /\ isValidDate(input.sessionStartedAt[1]),
       isArray(input.promptLineage) /\ isArray(input.rejectedOutputs),
       badEntries(input.promptLineage, VersionFields) = {},
       badEntries(input.rejectedOutputs, OutputFields) = {},
       input.selectedOutput # None => entryHas(input.selectedOutput[1], OutputFields),
       input.consentForTrainingData = Some(TRUE) => has(input.consentTimestamp) >>

reportsOf(input, check) ==
    CASE check = 1 -> { <<"Platform is required">> }
      [] check = 2 -> { <<"Session start time is required">>,
                        <<"Invalid session start time format (expected ISO 8601)">> }
      [] check = 3 -> { <<"Prompt lineage must be an array">>,
                        <<"Rejected outputs must be an array">> }
      [] check = 4 -> { <<"Invalid prompt version at index ",
                          smallest(badEntries(input.promptLineage, VersionFields)) - 1,
                          ": missing required fields (id, content, timestamp, mode)">> }
      [] check = 5 -> { <<"Invalid rejected output at index ",
                          smallest(badEntries(input.rejectedOutputs, OutputFields)) - 1,
                          ": missing required fields (id, promptVersionId, timestamp)">> }
      [] check = 6 -> { <<"Invalid selected output: missing required fields (id, promptVersionId, timestamp)">> }
      [] check = 7 -> { <<"Consent timestamp required when consent is given">> }

\* C20: validateInput accepts a payload exactly when every check passes (a
\* property counts as had when it is there and is not empty); when checks fail
\* it reports the first failing check alone, in the order of the specification,
\* with the smallest index of an offending entry of the lineage or of the
\* rejections.
ValidationFirstFailure ==
    result.op = "validateProcessInput" =>
       LET passed == checksPassed(result.input)
           failing == { k \in 1 .. Len(passed) : ~passed[k] }
       IN  /\ result.error = NoError
           /\ result.value.valid <=> failing = {}
           /\ failing # {} =>
                 result.value.error \in reportsOf(result.input, smallest(failing))

---------------------------------------------------------------------------
(* The export and the reads *)

ledgerTables == <<works, declarations, audioRefs, revisions>>

\* C23: getWork and the export change no stored record; the export of an id
\* of no Work is null, answered with status 404; the export that follows the
\* createWork of a Work with no audio file holds no revision, no audio
\* reference, and the declaration with the trimmed intent and tools, aiUsed as
\* a boolean and the trimmed contributors (null when blank).
ExportOfNewWork ==
    [][ result'.op \in { "getWork", "export", "GET" }
        => /\ UNCHANGED ledgerTables
           /\ UNCHANGED <<contributorRows, uploaded>>
           /\ findWork(result'.input) = NoRow
                 => /\ result'.op = "getWork" => result'.value = NoRow
                    /\ result'.op = "export" => result'.value = NoRow
                    /\ result'.op = "GET" => result'.value.status = 404
           /\ ( /\ result'.op \in { "export", "GET" }
                /\ result.op = "createWork"
                /\ result.error = NoError
                /\ result.value = result'.input
                /\ NonEmptyCount(result.input.audioFiles) = 0 )
                 => LET document == IF result'.op = "GET" THEN result'.value.body
                                    ELSE result'.value
                        in == result.input
                    IN  /\ result'.op = "GET" => result'.value.status = 200
                        /\ document.revisions = <<>>
                        /\ document.audioReferences = <<>>
                        /\ document.work.id = result.value
                        /\ document.work.title = trim(in.title)
                        /\ document.declaration # NoRow
                        /\ document.declaration.intent = trim(in.intent)
                        /\ document.declaration.tools = trim(in.tools)
                        /\ document.declaration.aiUsed = (in.aiUsed = TrueText)
                        /\ document.declaration.contributors =
                              (IF MissingOrBlank(in.contributors) THEN NULL
                               ELSE trim(in.contributors)) ]_vars

\* A Work with no audio file and with contributors was created and exported
\* through the route at once.
ExportedNewWorkWitness ==
    /\ result.op = "GET"
    /\ result.value.status = 200
    /\ result.value.body.revisions = <<>>
    /\ result.value.body.audioReferences = <<>>
    /\ result.value.body.declaration # NoRow
    /\ result.value.body.declaration.contributors # NULL
    /\ result.value.body.work.id = WorkId(Len(works))

---------------------------------------------------------------------------
(* Reward computations that interleave *)

\* C24: a reward computation writes the totals it computed from the row it
\* read and returns its reward: when another computation for the same
\* contributor has raised the stored totals since that read, the update
\* stores less than the stored total plus its points, the stored
\* totalContributions does not grow, and the row holds fewer contributions and
\* fewer points than the rewards returned.
RacingRewardsLoseUpdate ==
    [][ \A r \in Requests :
          (inFlight[r].stage = "update" /\ inFlight'[r] = Idle)
          => LET id == inFlight[r].contributorId
                 read == inFlight[r].contributor
                 stored == findContributor(contributorRows, id)
                 after == findContributor(contributorRows', id)
                 reward == result'.value
             IN  /\ result'.error = NoError
                 /\ reward.newTotal = read.totalPoints + reward.pointsEarned
                 /\ after.totalPoints = reward.newTotal
                 /\ after.totalContributions = read.totalContributions + 1
                 /\ stored.totalPoints > read.totalPoints
                       => /\ after.totalPoints < stored.totalPoints + reward.pointsEarned
                          /\ after.totalPoints < rewardsReported'[id].points
                 /\ stored.totalContributions > read.totalContributions
                       => /\ after.totalContributions <= stored.totalContributions
                          /\ after.totalContributions < rewardsReported'[id].rewards ]_vars

\* Two computations for one contributor read the row before either wrote it and
\* both returned a reward: the row counts one contribution and holds fewer
\* points than the two rewards together.
LostUpdateWitness ==
    \E id \in AnonymousIds :
        LET stored == findContributor(contributorRows, id)
        IN  /\ stored # NoRow
            /\ \A r \in Requests : inFlight[r] = Idle
            /\ result.error = NoError
            /\ rewardsReported[id].rewards = 2
            /\ stored.totalContributions = 1
            /\ stored.totalPoints < rewardsReported[id].points

\* C27: in every state, whatever the interleaving of the reward computations,
\* the tier stored with a contributor is the tier of the total points stored
\* with it.
StoredTierOfStoredTotal ==
    \A i \in 1 .. Len(contributorRows) :
        contributorRows[i].currentTier =
            tierToPrismaEnum(calculateTier(contributorRows[i].totalPoints))

\* A computation that had read the row before a curator's reward was written
\* wrote its own total afterwards: the rewards returned reach the curator
\* threshold, the stored total does not, and the stored tier is that of the
\* stored total.
TierOfOverwrittenTotalWitness ==
    \E id \in AnonymousIds :
        LET stored == findContributor(contributorRows, id)
        IN  /\ stored # NoRow
            /\ rewardsReported[id].rewards = 2
            /\ rewardsReported[id].points >= CuratorMin
            /\ stored.totalPoints < CuratorMin
            /\ stored.currentTier = "EXPLORER"

---------------------------------------------------------------------------
(* The counters of the platforms *)

\* The contributions counted for a platform key: 0 when the key has no entry.
platformCount(stats, key) ==
    IF hasPlatform(stats, key)
    THEN stats[CHOOSE i \in 1 .. Len(stats) : stats[i].key = key].contributions
    ELSE 0

RECURSIVE platformSum(_)
platformSum(stats) ==
    IF stats = <<>> THEN 0 ELSE Head(stats).contributions + platformSum(Tail(stats))

platformKeys(stats) == { stats[i].key : i \in 1 .. Len(stats) }

platformEntry(stats, key) == stats[CHOOSE i \in 1 .. Len(stats) : stats[i].key = key]

\* C28: a reward computation adds 1 to totalContributions and 1 to the counter
\* of the lowercased platform string, which starts at 0 with accuracy 0.5 when
\* the key is new, and leaves every other counter as it was; after it the
\* counters of each contributor add up to its totalContributions.
PlatformCountersAddUp ==
    [][ result'.op = "calculateContributionReward"
        => LET id == result'.input.contributorId
               key == toLowerCase(result'.input.payload.platform)
               read == findContributor(contributorRows, id)
               before == IF read = NoRow THEN <<>> ELSE read.platformStats
               after == findContributor(contributorRows', id)
           IN  /\ after.totalContributions
                     = (IF read = NoRow THEN 0 ELSE read.totalContributions) + 1
               /\ platformCount(after.platformStats, key) = platformCount(before, key) + 1
               /\ platformKeys(after.platformStats) = platformKeys(before) \cup { key }
               /\ ~hasPlatform(before, key)
                     => platformEntry(after.platformStats, key)
                          = [key |-> key, contributions |-> 1,
                             accuracy |-> toDouble(Half)]
               /\ \A other \in platformKeys(before) \ { key } :
                     platformEntry(after.platformStats, other)
                       = platformEntry(before, other)
               /\ \A i \in 1 .. Len(contributorRows') :
                     platformSum(contributorRows'[i].platformStats)
                       = contributorRows'[i].totalContributions ]_vars

\* A contributor with contributions on two platforms, one of them written in
\* mixed case and counted twice under its lowercased name.
TwoPlatformsCountedWitness ==
    \E i \in 1 .. Len(contributorRows) :
        /\ contributorRows[i].totalContributions = 3
        /\ Len(contributorRows[i].platformStats) = 2
        /\ platformCount(contributorRows[i].platformStats,
                         <<"c", "h", "a", "t", "g", "p", "t">>) = 2
        /\ result.op = "calculateContributionReward"

---------------------------------------------------------------------------
(* The range of the points *)

\* The points of one scored contribution are in their ranges.
PointsInRange ==
    result.op = "pointsEarned"
    => /\ result.value.basePoints \in 10 .. 101
       /\ result.value.pointsEarned \in 4 .. 273

\* C29: for a contributor whose taste score is in [0,1] the base points of a
\* reward computation are in 10..101 and its pointsEarned is a whole number in
\* 4..273; the computation, run alone, leaves the contributor with more total
\* points than before.
RewardWithinRange ==
    [][ result'.op = "calculateContributionReward"
        => LET id == result'.input.contributorId
               before == totalsOf(contributorRows, id)
               after == totalsOf(contributorRows', id)
               read == findContributor(contributorRows, id)
           IN  (read # NoRow => inUnitInterval(read.tasteScore))
               => /\ basePoints(result'.input.payload)
                        \in 10 .. 101
                  /\ result'.value.pointsEarned \in 4 .. 273
                  /\ result'.value.pointsEarned >= 1
                  /\ after.totalPoints > before.totalPoints ]_vars

\* The smallest reward was computed, for a contributor whose taste score has
\* fallen to 0 and who had points already.
SmallestRewardWitness ==
    /\ result.op = "calculateContributionReward"
    /\ result.value.pointsEarned = 4
    /\ result.value.qualityMultiplier = toDouble(Half)
    /\ result.value.newTotal > 4

\* The largest reward: every part of the base points at its cap, on the rarest
\* platform, for a contributor whose taste score is 1.
LargestRewardReached ==
    /\ result.op = "calculateContributionReward"
    /\ result.value.pointsEarned = 273

---------------------------------------------------------------------------
(* Properties of the submissions *)

\* The ProcessDeclaration of an id, in a table.
declarationRow(rows, id) == rows[CHOOSE i \in 1 .. Len(rows) : rows[i].id = id]

declarationsOfId(rows, id) == { i \in 1 .. Len(rows) : rows[i].id = id }

\* A request whose reward computation fails at this step: it is about to create
\* the contributor that another request has created since it looked.
losesCreation(r) ==
    /\ inFlight[r].stage = "create"
    /\ findContributor(contributorRows, inFlight[r].contributorId) # NoRow
    /\ inFlight'[r] # inFlight[r]

\* C21: when the reward computation of a submission fails, after its
\* ProcessDeclaration was stored, the submission is answered 201 with the id of
\* that ProcessDeclaration and no reward; the ProcessDeclaration stays stored,
\* no contributor is written, and the request is over: it tries nothing again.
RewardFailureKeepsSubmission ==
    [][ \A r \in Requests :
          losesCreation(r)
          => /\ result'.op = "POST"
             /\ result'.input = inFlight[r].request
             /\ result'.error # NoError
             /\ result'.value.status = 201
             /\ result'.value.body = [ success |-> TRUE,
                                       id |-> Some(inFlight[r].declarationId),
                                       reward |-> None, error |-> None ]
             /\ processDeclarations' = processDeclarations
             /\ Cardinality(declarationsOfId(processDeclarations',
                                             inFlight[r].declarationId)) = 1
             /\ contributorRows' = contributorRows
             /\ rewardsReported' = rewardsReported
             /\ inFlight'[r] = Idle ]_vars

\* The reward of a submission failed and the submission was answered 201; its
\* ProcessDeclaration is stored.
RewardFailedWitness ==
    /\ result.op = "POST"
    /\ result.error # NoError
    /\ result.value.status = 201
    /\ result.value.body.reward = None
    /\ \E i \in 1 .. Len(processDeclarations) :
          Some(processDeclarations[i].id) = result.value.body.id

\* A step of a request that is answered without anything being stored.
refusedSubmission ==
    /\ result'.op = "POST"
    /\ result' # result
    /\ inFlight' = inFlight
    /\ result'.value.status # 201

\* The body does not pass validateProcessInput.
failsValidation(request) ==
    \/ request = JsonNull
    \/ request # MalformedJson /\ validateProcessInput(request.json) # Valid

\* C22: a submission whose body is no JSON or does not pass the validation is
\* answered 400 with success false and an error message, and stores nothing;
\* each answer 201 names exactly one ProcessDeclaration, and no step changes a
\* ProcessDeclaration that is stored.
InvalidSubmissionsAnswered400 ==
    [][ /\ \A r \in Requests, request \in PostRequests :
              ( /\ inFlight[r] = Idle
                /\ result' = postResult(request, NoError, result'.value)
                /\ inFlight' = inFlight
                /\ request = MalformedJson \/ failsValidation(request) )
              => /\ result'.value.status = 400
                 /\ result'.value.body.success = FALSE
                 /\ result'.value.body.error # None
                 /\ UNCHANGED <<processDeclarations, contributorRows>>
        /\ Len(processDeclarations') \in { Len(processDeclarations),
                                           Len(processDeclarations) + 1 }
        /\ \A i \in 1 .. Len(processDeclarations) :
              processDeclarations'[i] = processDeclarations[i]
        /\ (result'.op = "POST" /\ result'.value.status = 201)
              => Cardinality({ i \in 1 .. Len(processDeclarations') :
                                 Some(processDeclarations'[i].id)
                                   = result'.value.body.id }) = 1 ]_vars

\* The part of C22 that the answers 500 leave standing: a request that is not
\* answered 201 stores nothing, the bodies that the validation reports invalid
\* are answered 400, and the ProcessDeclarations stored are never changed.
RefusedSubmissionsStoreNothing ==
    [][ /\ refusedSubmission
              => /\ UNCHANGED <<processDeclarations, contributorRows>>
                 /\ result'.value.body.success = FALSE
                 /\ result'.value.body.error # None
                 /\ ( \/ result'.input = MalformedJson
                      \/ /\ result'.input # JsonNull
                         /\ validateProcessInput(result'.input.json) # TypeError
                         /\ ~validateProcessInput(result'.input.json).valid )
                       => result'.value.status = 400
        /\ \A i \in 1 .. Len(processDeclarations) :
              processDeclarations'[i] = processDeclarations[i] ]_vars

\* The stored ProcessDeclaration lacks the contributor or the consent.
lacksContributorOrConsent(row) ==
    \/ row.contributorId \in { None, Some("") }
    \/ row.consentForTrainingData # Some(TRUE)

OneContributorPerAnonymousId ==
    [][ /\ \A i \in 1 .. Len(contributorRows'), j \in 1 .. Len(contributorRows') :
              contributorRows'[i].anonymousId = contributorRows'[j].anonymousId
              => i = j
        /\ \A r \in Requests :
              ( /\ inFlight[r].stage = "create"
                /\ inFlight'[r] # inFlight[r]
                /\ findContributor(contributorRows, inFlight[r].contributorId) # NoRow )
              => /\ result'.error = "Unique constraint failed"
                 /\ result'.value.status = 201
                 /\ result'.value.body.success = TRUE
                 /\ result'.value.body.reward = None
                 /\ Len(contributorRows') = Len(contributorRows) ]_vars

\* Two first submissions of one anonymous id interleaved: both are stored, one
\* contributor exists, and the request that lost the creation was answered.
CreationRaceWitness ==
    /\ Len(processDeclarations) = 2
    /\ processDeclarations[1].contributorId = processDeclarations[2].contributorId
    /\ processDeclarations[1].contributorId # None
    /\ Len(contributorRows) = 1
    /\ Some(contributorRows[1].anonymousId) = processDeclarations[1].contributorId
    /\ result.op = "POST"
    /\ result.error = "Unique constraint failed"
    /\ result.value.status = 201

\* C30: the reward of a submission is computed with the session duration that
\* is stored on its ProcessDeclaration, and the duration stored when none is
\* given and the end is given is round((end - start) / 1000).
RewardUsesPersistedDuration ==
    [][ /\ \A request \in PostRequests \ { MalformedJson, JsonNull } :
              ( /\ refusal(request) = None
                /\ request.json.sessionDuration = None
                /\ truthyString(request.json.sessionEndedAt)
                /\ processDeclarations'
                     = Append(processDeclarations,
                              processDeclarationRow(processDeclarations, request.json)) )
              => LET row == processDeclarations'[Len(processDeclarations')]
                     elapsed == row.sessionEndedAt[1] - row.sessionStartedAt
                 IN  /\ row.sessionDuration # None
                     /\ 1000 * row.sessionDuration[1] - 500 <= elapsed
                     /\ elapsed < 1000 * row.sessionDuration[1] + 500
        /\ \A r \in Requests :
              (inFlight[r].stage = "update" /\ inFlight'[r] = Idle)
              => LET row == declarationRow(processDeclarations,
                                           inFlight[r].declarationId)
                 IN  result'.value.body.reward[1].pointsEarned
                       = pointsEarned(inFlight[r].contributor,
                                      [inFlight[r].input EXCEPT
                                          !.sessionDuration = row.sessionDuration]) ]_vars

====
